---- MODULE Spec2Model ----
(***************************************************************************)
(* Cache / invalidation / fixed-window rate limiter of the finance tracker *)
(* service: CacheService, CacheInvalidator (plugins/cache.plugin.ts) and   *)
(* RateLimitService (plugins/rate-limit.plugin.ts) over one shared Redis.  *)
(*                                                                         *)
(* Keys and glob patterns are sequences of one-character strings, so that  *)
(* prefix and glob matching are computed character by character.  Stored   *)
(* payloads are strings (the text Redis holds).  Time is wall-clock        *)
(* milliseconds.                                                           *)
(***************************************************************************)
EXTENDS Integers, Sequences, FiniteSets, TLC

\* store    the Redis keyspace: key -> [val, exp]
\* now      Date.now(), milliseconds
\* up       whether the Redis connection answers commands
\* windowMs the window size the limiter is used with
\* last     the operation that has just returned, with what its caller saw
\* prev     the latest cache.set that returned true (CacheSpec); whether the
\*          counter expired (IncrSpec)
\* pre      the store as the operation that has just returned found it
\* hist     per subject: window, calls made in it, all of them answered
\* pc, got  position and result of each concurrent caller of incr
\* db       the data layer: the version of the user's expense rows (commits)
\* acked    the highest version whose POST /expenses has answered 201
\* admitted the checkRateLimit calls answered allowed: when and under which
\*          limit (AdmitSpec)
\* seen     the latest totalHits a caller was given, and for which window
\*          key (AdmitSpec)
VARIABLES store, now, up, windowMs, last, prev, pre, hist, pc, got, db, acked,
          admitted, seen

vars == <<store, now, up, windowMs, last, prev, pre, hist, pc, got, db, acked,
          admitted, seen>>

-----------------------------------------------------------------------------
(* Bounds of the model.                                                    *)

TickMs == 500          \* the clock advances in steps of TickMs
MaxTicks == 3          \* the clock stops after MaxTicks steps
MaxHits == 3           \* calls of checkRateLimit per subject and window
MaxLive == 3           \* cache entries alive at once (invalidation runs)
NProcs == 3            \* concurrent callers of incr

MsPerSec == 1000       \* seconds <-> milliseconds (TTL seconds, Date.now() ms)

-----------------------------------------------------------------------------
(* Text.                                                                   *)

DigitChar == <<"0", "1", "2", "3", "4", "5", "6", "7", "8", "9">>

\* `${n}` for a non-negative integer n: its decimal digits.
RECURSIVE NumToStr(_)
NumToStr(n) ==
  IF n < 10 THEN <<DigitChar[n + 1]>>
  ELSE NumToStr(n \div 10) \o <<DigitChar[(n % 10) + 1]>>

IsPrefix(p, s) == Len(p) <= Len(s) /\ SubSeq(s, 1, Len(p)) = p

S_user == <<"u", "s", "e", "r", ":">>
S_categories == <<":", "c", "a", "t", "e", "g", "o", "r", "i", "e", "s">>
S_expenses == <<":", "e", "x", "p", "e", "n", "s", "e", "s">>
S_expense_count == <<":", "e", "x", "p", "e", "n", "s", "e", "_", "c", "o", "u", "n", "t">>
S_category == <<"c", "a", "t", "e", "g", "o", "r", "y", ":">>
S_expense == <<"e", "x", "p", "e", "n", "s", "e", ":">>
S_rate_limit == <<"r", "a", "t", "e", "_", "l", "i", "m", "i", "t", ":">>
S_colon == <<":">>
S_star == <<"*">>

\* Redis glob matching (KEYS pattern): '*' matches any run of characters,
\* '?' any one character, every other character itself.
RECURSIVE GlobMatch(_, _)
GlobMatch(p, s) ==
  IF p = <<>> THEN s = <<>>
  ELSE IF Head(p) = "*"
       THEN GlobMatch(Tail(p), s) \/ (s # <<>> /\ GlobMatch(p, Tail(s)))
       ELSE /\ s # <<>>
            /\ (Head(p) = "?" \/ Head(p) = Head(s))
            /\ GlobMatch(Tail(p), Tail(s))

-----------------------------------------------------------------------------
(* Cache keys and invalidation patterns.                                   *)

\* `${page || 1}`, `${limit || 20}`: 0 stands for an omitted argument.
OrDefault(n, d) == IF n = 0 THEN d ELSE n

CACHE_KEYS_USER(userId) == S_user \o userId
CACHE_KEYS_USER_CATEGORIES(userId) == S_user \o userId \o S_categories
CACHE_KEYS_USER_EXPENSES(userId, page, limit) ==
  S_user \o userId \o S_expenses \o S_colon \o NumToStr(OrDefault(page, 1))
         \o S_colon \o NumToStr(OrDefault(limit, 20))
CACHE_KEYS_USER_EXPENSE_COUNT(userId) == S_user \o userId \o S_expense_count
CACHE_KEYS_CATEGORY(categoryId) == S_category \o NumToStr(categoryId)
CACHE_KEYS_EXPENSE(expenseId) == S_expense \o NumToStr(expenseId)
CACHE_KEYS_CATEGORY_EXPENSE_COUNT(categoryId) ==
  S_category \o NumToStr(categoryId) \o S_expense_count

\* Mutant: `user:${userId}:*`, which the bare user key does not match.
CACHE_PATTERNS_USER_ALL_colon(userId) == S_user \o userId \o S_colon \o S_star

CACHE_PATTERNS_USER_ALL(userId) == S_user \o userId \o S_star
CACHE_PATTERNS_USER_CATEGORIES(userId) == S_user \o userId \o S_categories \o S_star
CACHE_PATTERNS_USER_EXPENSES(userId) == S_user \o userId \o S_expenses \o S_star
CACHE_PATTERNS_CATEGORY_ALL(categoryId) == S_category \o NumToStr(categoryId) \o S_star
CACHE_PATTERNS_EXPENSE_ALL(expenseId) == S_expense \o NumToStr(expenseId) \o S_star

-----------------------------------------------------------------------------
(* JavaScript values and their JSON text.                                  *)

JsNum(n) == [t |-> "number", n |-> n, s |-> ""]
JsNaN == [t |-> "number", n |-> 0, s |-> "NaN"]
JsStr(x) == [t |-> "string", n |-> 0, s |-> x]
JsBool(b) == [t |-> "boolean", n |-> IF b THEN 1 ELSE 0, s |-> ""]
JsObj(n) == [t |-> "object", n |-> n, s |-> ""]      \* the object {id: n}
JsNull == [t |-> "null", n |-> 0, s |-> ""]

MaxNum == 9            \* numbers that occur as payloads are 0..MaxNum + 1

\* JSON.stringify(value)
JSONstringify(v) ==
  CASE v.t = "number" -> IF v.s = "NaN" THEN "null" ELSE ToString(v.n)
    [] v.t = "string" -> "\"" \o v.s \o "\""
    [] v.t = "boolean" -> IF v.n = 1 THEN "true" ELSE "false"
    [] v.t = "object" -> "{\"id\":" \o ToString(v.n) \o "}"
    [] OTHER -> "null"

\* Decimal text of an integer, and the integer it denotes.
IsIntText(s) == \E n \in 0..MaxNum + 1 : ToString(n) = s
IntOfText(s) == CHOOSE n \in 0..MaxNum + 1 : ToString(n) = s

\* JSON.parse(text): [err |-> TRUE] is a SyntaxError.
JSONparse(text) ==
  IF text = "null" THEN [err |-> FALSE, val |-> JsNull]
  ELSE IF text = "true" THEN [err |-> FALSE, val |-> JsBool(TRUE)]
  ELSE IF text = "false" THEN [err |-> FALSE, val |-> JsBool(FALSE)]
  ELSE IF IsIntText(text) THEN [err |-> FALSE, val |-> JsNum(IntOfText(text))]
  ELSE IF \E n \in 0..MaxNum : ("{\"id\":" \o ToString(n) \o "}") = text
       THEN [err |-> FALSE,
             val |-> JsObj(CHOOSE n \in 0..MaxNum : ("{\"id\":" \o ToString(n) \o "}") = text)]
  ELSE IF text = "\"\"" THEN [err |-> FALSE, val |-> JsStr("")]
  ELSE IF text = "\"a\"" THEN [err |-> FALSE, val |-> JsStr("a")]
  ELSE [err |-> TRUE, val |-> JsNull]

-----------------------------------------------------------------------------
(* The store: Redis commands.  A store maps each key it holds to its       *)
(* payload and expiry time (NoExpiry: none).  c is the number of commands  *)
(* the store still answers before it becomes unreachable (Healthy: it      *)
(* stays reachable; 0: unreachable, every command errors; Broken: a         *)
(* command has already erred).                                             *)

NoExpiry == -1
Healthy == -1
Broken == -2           \* a command was issued to the unreachable store

Ok(c) == c = Healthy \/ c > 0
Dec(c) == IF c = Healthy THEN Healthy ELSE IF c > 0 THEN c - 1 ELSE Broken

Put(st, k, e) == [x \in DOMAIN st \cup {k} |-> IF x = k THEN e ELSE st[x]]
Remove(st, K) == [x \in DOMAIN st \ K |-> st[x]]

\* A key whose expiry time has passed is gone (store-enforced eviction).
Expired(e, t) == e.exp # NoExpiry /\ t > e.exp
Evict(st, t) == Remove(st, {k \in DOMAIN st : Expired(st[k], t)})

Reply(err, nil, s, n, keys, st, c) ==
  [err |-> err, nil |-> nil, s |-> s, n |-> n, keys |-> keys, st |-> st, c |-> c]
Fail(st, c) == Reply(TRUE, TRUE, "", 0, {}, st, Dec(c))

RedisGet(st, k, c) ==
  IF ~Ok(c) THEN Fail(st, c)
  ELSE IF k \in DOMAIN st THEN Reply(FALSE, FALSE, st[k].val, 0, {}, st, Dec(c))
  ELSE Reply(FALSE, TRUE, "", 0, {}, st, Dec(c))

RedisSetex(st, k, seconds, text, t, c) ==
  IF ~Ok(c) \/ seconds <= 0 THEN Fail(st, c)
  ELSE Reply(FALSE, FALSE, "OK", 0, {},
             Put(st, k, [val |-> text, exp |-> t + seconds * MsPerSec]), Dec(c))

RedisDel(st, K, c) ==
  IF ~Ok(c) THEN Fail(st, c)
  ELSE Reply(FALSE, FALSE, "", Cardinality(K \cap DOMAIN st), {}, Remove(st, K), Dec(c))

RedisKeys(st, pattern, c) ==
  IF ~Ok(c) THEN Fail(st, c)
  ELSE Reply(FALSE, FALSE, "", 0, {k \in DOMAIN st : GlobMatch(pattern, k)}, st, Dec(c))

RedisExists(st, k, c) ==
  IF ~Ok(c) THEN Fail(st, c)
  ELSE Reply(FALSE, FALSE, "", IF k \in DOMAIN st THEN 1 ELSE 0, {}, st, Dec(c))

RedisTtl(st, k, t, c) ==
  IF ~Ok(c) THEN Fail(st, c)
  ELSE Reply(FALSE, FALSE, "",
             IF k \notin DOMAIN st THEN -2
             ELSE IF st[k].exp = NoExpiry THEN -1
             ELSE (st[k].exp - t + (MsPerSec \div 2)) \div MsPerSec,
             {}, st, Dec(c))

\* Mutant: the reply is the value before the increment.
RedisIncr_repliesOld(st, k, c) ==
  IF ~Ok(c) THEN Fail(st, c)
  ELSE IF k \notin DOMAIN st
       THEN Reply(FALSE, FALSE, "", 0, {}, Put(st, k, [val |-> "1", exp |-> NoExpiry]), Dec(c))
  ELSE IF IsIntText(st[k].val)
       THEN Reply(FALSE, FALSE, "", IntOfText(st[k].val), {},
                  Put(st, k, [val |-> ToString(IntOfText(st[k].val) + 1), exp |-> st[k].exp]),
                  Dec(c))
  ELSE Fail(st, c)

\* INCR: an absent key counts from 0; the expiry of the key is kept.
RedisIncr(st, k, c) ==
  IF ~Ok(c) THEN Fail(st, c)
  ELSE IF k \notin DOMAIN st
       THEN Reply(FALSE, FALSE, "", 1, {}, Put(st, k, [val |-> "1", exp |-> NoExpiry]), Dec(c))
  ELSE IF IsIntText(st[k].val)
       THEN Reply(FALSE, FALSE, "", IntOfText(st[k].val) + 1, {},
                  Put(st, k, [val |-> ToString(IntOfText(st[k].val) + 1), exp |-> st[k].exp]),
                  Dec(c))
  ELSE Fail(st, c)

\* Mutant: the argument taken as milliseconds (PEXPIRE).
RedisExpire_millis(st, k, seconds, t, c) ==
  IF ~Ok(c) THEN Fail(st, c)
  ELSE IF k \in DOMAIN st
       THEN Reply(FALSE, FALSE, "", 1, {},
                  Put(st, k, [val |-> st[k].val, exp |-> t + seconds]), Dec(c))
  ELSE Reply(FALSE, FALSE, "", 0, {}, st, Dec(c))

RedisExpire(st, k, seconds, t, c) ==
  IF ~Ok(c) THEN Fail(st, c)
  ELSE IF k \in DOMAIN st
       THEN Reply(FALSE, FALSE, "", 1, {},
                  Put(st, k, [val |-> st[k].val, exp |-> t + seconds * MsPerSec]), Dec(c))
  ELSE Reply(FALSE, FALSE, "", 0, {}, st, Dec(c))

-----------------------------------------------------------------------------
(* CacheService.  Every method is `try { ... } catch { log; return d }`:   *)
(* the body either returns or throws, and Catch maps a throw to d.         *)

Return(v, st, c) == [ret |-> v, threw |-> FALSE, caught |-> FALSE, st |-> st, c |-> c]
Throw(st, c) == [ret |-> JsNull, threw |-> TRUE, caught |-> FALSE, st |-> st, c |-> c]
\* Mutant: no catch block, the exception reaches the caller.
Catch_rethrows(r, d) == r

Catch(r, d) == IF r.threw THEN [r EXCEPT !.threw = FALSE, !.caught = TRUE, !.ret = d] ELSE r

\* Mutant: the falsy test is made on the parsed value, not on the payload.
get_try_falsyParsed(st, key, c) ==
  LET r == RedisGet(st, key, c) IN
  IF r.err THEN Throw(r.st, r.c)
  ELSE IF r.nil THEN Return(JsNull, r.st, r.c)
  ELSE LET p == JSONparse(r.s) IN
       IF p.err THEN Throw(r.st, r.c)
       ELSE IF p.val.t = "number" /\ p.val.n = 0 THEN Return(JsNull, r.st, r.c)
       ELSE Return(p.val, r.st, r.c)

get_try(st, key, c) ==
  LET r == RedisGet(st, key, c) IN
  IF r.err THEN Throw(r.st, r.c)
  ELSE IF r.nil \/ r.s = "" THEN Return(JsNull, r.st, r.c)
  ELSE LET p == JSONparse(r.s) IN
       IF p.err THEN Throw(r.st, r.c) ELSE Return(p.val, r.st, r.c)

get(st, key, c) == Catch(get_try(st, key, c), JsNull)

set_try(st, key, value, seconds, t, c) ==
  LET r == RedisSetex(st, key, seconds, JSONstringify(value), t, c) IN
  IF r.err THEN Throw(r.st, r.c) ELSE Return(JsBool(TRUE), r.st, r.c)

set(st, key, value, seconds, t, c) ==
  Catch(set_try(st, key, value, seconds, t, c), JsBool(FALSE))

del_try(st, key, c) ==
  LET r == RedisDel(st, {key}, c) IN
  IF r.err THEN Throw(r.st, r.c) ELSE Return(JsBool(TRUE), r.st, r.c)

del(st, key, c) == Catch(del_try(st, key, c), JsBool(FALSE))

\* Mutant: reports that a deletion happened, not how many keys it deleted.
delPattern_reportsOne(st, pattern, c) ==
  LET ks == RedisKeys(st, pattern, c) IN
  IF ks.err THEN Return(JsNum(0), ks.st, ks.c)
  ELSE IF ks.keys = {} THEN Return(JsNum(0), ks.st, ks.c)
  ELSE LET r == RedisDel(ks.st, ks.keys, ks.c) IN
       IF r.err THEN Return(JsNum(0), r.st, r.c) ELSE Return(JsNum(1), r.st, r.c)

delPattern_try(st, pattern, c) ==
  LET ks == RedisKeys(st, pattern, c) IN
  IF ks.err THEN Throw(ks.st, ks.c)
  ELSE IF ks.keys = {} THEN Return(JsNum(0), ks.st, ks.c)
  ELSE LET r == RedisDel(ks.st, ks.keys, ks.c) IN
       IF r.err THEN Throw(r.st, r.c) ELSE Return(JsNum(r.n), r.st, r.c)

delPattern(st, pattern, c) == Catch(delPattern_try(st, pattern, c), JsNum(0))

exists_try(st, key, c) ==
  LET r == RedisExists(st, key, c) IN
  IF r.err THEN Throw(r.st, r.c) ELSE Return(JsBool(r.n = 1), r.st, r.c)

exists(st, key, c) == Catch(exists_try(st, key, c), JsBool(FALSE))

ttl_try(st, key, t, c) ==
  LET r == RedisTtl(st, key, t, c) IN
  IF r.err THEN Throw(r.st, r.c) ELSE Return(JsNum(r.n), r.st, r.c)

ttl(st, key, t, c) == Catch(ttl_try(st, key, t, c), JsNum(-1))

\* Mutant: `if (ttl)` in place of `if (ttl && result === 1)`.
incr_try_refreshing(st, key, seconds, t, c) ==
  LET r == RedisIncr(st, key, c) IN
  IF r.err THEN Throw(r.st, r.c)
  ELSE IF seconds # 0
       THEN LET e == RedisExpire(r.st, key, seconds, t, r.c) IN
            IF e.err THEN Throw(e.st, e.c) ELSE Return(JsNum(r.n), e.st, e.c)
  ELSE Return(JsNum(r.n), r.st, r.c)

\* incr(key, ttl?): seconds = 0 stands for an omitted (or zero) ttl, both falsy.
incr_try(st, key, seconds, t, c) ==
  LET r == RedisIncr(st, key, c) IN
  IF r.err THEN Throw(r.st, r.c)
  ELSE IF seconds # 0 /\ r.n = 1
       THEN LET e == RedisExpire(r.st, key, seconds, t, r.c) IN
            IF e.err THEN Throw(e.st, e.c) ELSE Return(JsNum(r.n), e.st, e.c)
  ELSE Return(JsNum(r.n), r.st, r.c)

\* Mutant: the catch block returns -1 (the default of ttl) instead of 0.
incr_returnsMinusOne(st, key, seconds, t, c) ==
  Catch(incr_try(st, key, seconds, t, c), JsNum(-1))

incr(st, key, seconds, t, c) == Catch(incr_try(st, key, seconds, t, c), JsNum(0))

-----------------------------------------------------------------------------
(* Cacheable(keyGenerator, ttl): the wrapper put around a method.  cacheKey *)
(* is keyGenerator(...args) and result what method.apply(this, args) would *)
(* return; invoked tells whether the method was called.                    *)

JsUndefined == [t |-> "undefined", n |-> 0, s |-> ""]

Wrapped(ret, invoked, st, c) ==
  [ret |-> ret, invoked |-> invoked, threw |-> FALSE, st |-> st, c |-> c]

\* After `cached = await cache.get(cacheKey)`, with g what get returned;
\* hit stands for the test made on cached.
afterGet(g, hit, cacheKey, result, seconds, t) ==
  IF hit THEN Wrapped(g.ret, FALSE, g.st, g.c)
  ELSE IF result # JsNull /\ result # JsUndefined
       THEN Wrapped(result, TRUE, set(g.st, cacheKey, result, seconds, t, g.c).st,
                    set(g.st, cacheKey, result, seconds, t, g.c).c)
  ELSE Wrapped(result, TRUE, g.st, g.c)

\* Mutant: `if (cached)` in place of `if (cached !== null)`.
Cacheable_truthyHit(st, cacheKey, result, seconds, t, c) ==
  afterGet(get(st, cacheKey, c),
           get(st, cacheKey, c).ret
             \notin {JsNull, JsNum(0), JsNaN, JsStr(""), JsBool(FALSE)},
           cacheKey, result, seconds, t)

Cacheable(st, cacheKey, result, seconds, t, c) ==
  afterGet(get(st, cacheKey, c), get(st, cacheKey, c).ret # JsNull,
           cacheKey, result, seconds, t)

-----------------------------------------------------------------------------
(* RateLimitService.                                                       *)

Max(a, b) == IF a >= b THEN a ELSE b
CeilDiv(a, b) == (a + b - 1) \div b           \* Math.ceil(a / b), b > 0

\* Mutant: Math.ceil in place of Math.floor.
WindowStart_ceil(t, wMs) == CeilDiv(t, wMs) * wMs

WindowStart(t, wMs) == (t \div wMs) * wMs    \* Math.floor(now / windowMs) * windowMs
RateLimitKey(key, windowStart) ==            \* `rate_limit:${key}:${windowStart}`
  S_rate_limit \o key \o S_colon \o NumToStr(windowStart)

RateLimitResult(allowed, remaining, resetTime, totalHits) ==
  [allowed |-> allowed, remaining |-> remaining, resetTime |-> resetTime,
   totalHits |-> totalHits]

\* Mutant: Math.floor in place of Math.ceil for the TTL in seconds.
checkRateLimit_floorTtl(st, key, limit, wMs, t, c) ==
  LET windowStart == WindowStart(t, wMs)
      cacheKey == RateLimitKey(key, windowStart)
      r == incr(st, cacheKey, wMs \div MsPerSec, t, c)
      currentCount == r.ret.n
  IN IF r.threw
     THEN [r EXCEPT !.threw = FALSE, !.caught = TRUE,
                    !.ret = RateLimitResult(TRUE, limit, t + wMs, 0)]
     ELSE [r EXCEPT !.ret = RateLimitResult(currentCount <= limit,
                                            Max(0, limit - currentCount),
                                            windowStart + wMs, currentCount)]

\* Mutant: `currentCount <= limit + 1` in place of `currentCount <= limit`.
checkRateLimit_lenient(st, key, limit, wMs, t, c) ==
  LET windowStart == WindowStart(t, wMs)
      cacheKey == RateLimitKey(key, windowStart)
      r == incr(st, cacheKey, CeilDiv(wMs, MsPerSec), t, c)
      currentCount == r.ret.n
  IN IF r.threw
     THEN [r EXCEPT !.threw = FALSE, !.caught = TRUE,
                    !.ret = RateLimitResult(TRUE, limit, t + wMs, 0)]
     ELSE [r EXCEPT !.ret = RateLimitResult(currentCount <= limit + 1,
                                            Max(0, limit - currentCount),
                                            windowStart + wMs, currentCount)]

\* Mutant: a counter reply of 0 (the fail-open value) is denied.
checkRateLimit_failClosed(st, key, limit, wMs, t, c) ==
  LET windowStart == WindowStart(t, wMs)
      cacheKey == RateLimitKey(key, windowStart)
      r == incr(st, cacheKey, CeilDiv(wMs, MsPerSec), t, c)
      currentCount == r.ret.n
  IN [r EXCEPT !.ret = RateLimitResult(currentCount > 0 /\ currentCount <= limit,
                                       Max(0, limit - currentCount),
                                       windowStart + wMs, currentCount)]

\* Mutant: `currentCount < limit` in place of `currentCount <= limit`.
checkRateLimit_strict(st, key, limit, wMs, t, c) ==
  LET windowStart == WindowStart(t, wMs)
      cacheKey == RateLimitKey(key, windowStart)
      r == incr(st, cacheKey, CeilDiv(wMs, MsPerSec), t, c)
      currentCount == r.ret.n
  IN IF r.threw
     THEN [r EXCEPT !.threw = FALSE, !.caught = TRUE,
                    !.ret = RateLimitResult(TRUE, limit, t + wMs, 0)]
     ELSE [r EXCEPT !.ret = RateLimitResult(currentCount < limit,
                                            Max(0, limit - currentCount),
                                            windowStart + wMs, currentCount)]

checkRateLimit(st, key, limit, wMs, t, c) ==
  LET windowStart == WindowStart(t, wMs)
      cacheKey == RateLimitKey(key, windowStart)
      r == incr(st, cacheKey, CeilDiv(wMs, MsPerSec), t, c)
      currentCount == r.ret.n
  IN IF r.threw
     THEN [r EXCEPT !.threw = FALSE, !.caught = TRUE,
                    !.ret = RateLimitResult(TRUE, limit, t + wMs, 0)]
     ELSE [r EXCEPT !.ret = RateLimitResult(currentCount <= limit,
                                            Max(0, limit - currentCount),
                                            windowStart + wMs, currentCount)]

\* `(await this.cache.get<number>(cacheKey)) || 0`
OrZero(v) ==
  IF v.t = "null" \/ (v.t = "number" /\ (v.n = 0 \/ v.s = "NaN"))
     \/ (v.t = "string" /\ v.s = "") \/ (v.t = "boolean" /\ v.n = 0)
  THEN JsNum(0) ELSE v

\* Mutant: reads the counter by incrementing it.
getRateLimitInfo_counting(st, key, limit, wMs, t, c) ==
  LET windowStart == WindowStart(t, wMs)
      cacheKey == RateLimitKey(key, windowStart)
      r == incr(st, cacheKey, 0, t, c)
      currentCount == r.ret.n
  IN [r EXCEPT !.ret = RateLimitResult(currentCount <= limit,
                                       Max(0, limit - currentCount),
                                       windowStart + wMs, currentCount)]

\* Mutant: the window start rounded up, so the next window's key is read.
getRateLimitInfo_ceilWindow(st, key, limit, wMs, t, c) ==
  LET windowStart == WindowStart_ceil(t, wMs)
      cacheKey == RateLimitKey(key, windowStart)
      r == get(st, cacheKey, c)
      currentCount == OrZero(r.ret).n
  IN IF r.threw
     THEN [r EXCEPT !.threw = FALSE, !.caught = TRUE,
                    !.ret = RateLimitResult(TRUE, limit, t + wMs, 0)]
     ELSE [r EXCEPT !.ret = RateLimitResult(currentCount <= limit,
                                            Max(0, limit - currentCount),
                                            windowStart + wMs, currentCount)]

getRateLimitInfo(st, key, limit, wMs, t, c) ==
  LET windowStart == WindowStart(t, wMs)
      cacheKey == RateLimitKey(key, windowStart)
      r == get(st, cacheKey, c)
      currentCount == OrZero(r.ret).n
  IN IF r.threw
     THEN [r EXCEPT !.threw = FALSE, !.caught = TRUE,
                    !.ret = RateLimitResult(TRUE, limit, t + wMs, 0)]
     ELSE [r EXCEPT !.ret = RateLimitResult(currentCount <= limit,
                                            Max(0, limit - currentCount),
                                            windowStart + wMs, currentCount)]

\* Mutant: `deleted >= 0` in place of `deleted > 0`.
resetRateLimit_alwaysTrue(st, key, c) ==
  LET pattern == S_rate_limit \o key \o S_colon \o S_star
      r == delPattern(st, pattern, c)
  IN [r EXCEPT !.ret = JsBool(r.ret.n >= 0)]

resetRateLimit(st, key, c) ==
  LET pattern == S_rate_limit \o key \o S_colon \o S_star
      r == delPattern(st, pattern, c)
  IN IF r.threw
     THEN [r EXCEPT !.threw = FALSE, !.caught = TRUE, !.ret = JsBool(FALSE)]
     ELSE [r EXCEPT !.ret = JsBool(r.ret.n > 0)]

\* The handler createRateLimitMiddleware(limitConfig) returns, with
\* requests = limitConfig.requests and wMs = limitConfig.window * 1000.  Its
\* value: continue (it returned undefined) or the 429 body, with the status
\* and the X-RateLimit-* headers it set.
Continue(headers) ==
  [continue |-> TRUE, status |-> 0, success |-> TRUE, message |-> "", error |-> "",
   retryAfter |-> 0, headers |-> headers]
TooManyRequests(headers, retryAfter) ==
  [continue |-> FALSE, status |-> 429, success |-> FALSE,
   message |-> "Too many requests", error |-> "Rate limit exceeded",
   retryAfter |-> retryAfter, headers |-> headers]

\* The X-RateLimit-* headers, as numbers: Limit, Remaining, Reset, Used.
rateLimitHeaders(requests, result) ==
  [Limit |-> requests, Remaining |-> result.remaining,
   Reset |-> CeilDiv(result.resetTime, MsPerSec), Used |-> result.totalHits]

\* What the handler does with `result`, the value r of checkRateLimit holds.
afterCheck(r, requests, t, deny) ==
  [st |-> r.st, c |-> r.c, threw |-> r.threw, result |-> r.ret,
   ret |-> IF deny
           THEN TooManyRequests(rateLimitHeaders(requests, r.ret),
                                CeilDiv(r.ret.resetTime - t, MsPerSec))
           ELSE Continue(rateLimitHeaders(requests, r.ret))]

\* Mutant: `result.totalHits >= limitConfig.requests` decides the denial.
rateLimitMiddleware_denyAtLimit(st, key, requests, wMs, t, c) ==
  afterCheck(checkRateLimit(st, key, requests, wMs, t, c), requests, t,
             checkRateLimit(st, key, requests, wMs, t, c).ret.totalHits >= requests)

\* `if (!result.allowed)` decides.
rateLimitMiddleware(st, key, requests, wMs, t, c) ==
  afterCheck(checkRateLimit(st, key, requests, wMs, t, c), requests, t,
             ~checkRateLimit(st, key, requests, wMs, t, c).ret.allowed)

\* The same handler with its two readings of the clock told apart: t is the
\* Date.now() checkRateLimit reads before it awaits the store, t2 the
\* Date.now() in the 429 body, read after the store has answered.
createRateLimitMiddleware(st, key, requests, wMs, t, t2, c) ==
  afterCheck(checkRateLimit(st, key, requests, wMs, t, c), requests, t2,
             ~checkRateLimit(st, key, requests, wMs, t, c).ret.allowed)

-----------------------------------------------------------------------------
(* State.                                                                  *)
(*   store     what the shared Redis holds                                 *)
(*   now       Date.now()                                                  *)
(*   up        the store is reachable                                      *)
(*   windowMs  the window size the limiter is configured with              *)
(*   last      the operation that has just returned: arguments and result  *)
(*             (NoOp once time has passed since)                           *)
(*   prev      the operation before it                                     *)
(*   pre       the store as it was when the last operation was called      *)
(*   hist      per subject: the window of its latest checkRateLimit call,  *)
(*             the number of calls in that window, and whether all of them *)
(*             ran on a healthy store with no resetRateLimit since         *)
(*   pc, got   concurrent callers of incr: position and returned value     *)

Subjects == {<<"i", "p", "1">>}
Windows == {1000, 1500}
Limits == {1, 2}
Cuts == {1}            \* a fault may strike after this many commands of a call

EmptyStore == [k \in {} |-> [val |-> "", exp |-> NoExpiry]]
NoOp == [op |-> "none"]
Pc(at, seconds) == [at |-> at, ttl |-> seconds]
Procs == 1..NProcs

\* The fault budgets a call can start with.
Budgets(u) == IF u THEN {Healthy} \cup Cuts ELSE {0}
StillUp(c) == c = Healthy \/ c > 0
Faulted(c) == c = Broken

InitCommon ==
  /\ admitted = <<>>
  /\ seen = NoOp
  /\ db = 0
  /\ acked = 0
  /\ store = EmptyStore
  /\ now = 0
  /\ up = TRUE
  /\ last = NoOp
  /\ prev = NoOp
  /\ pre = EmptyStore
  /\ hist = [s \in Subjects |-> [ws |-> -1, n |-> 0, clean |-> TRUE]]
  /\ pc = [p \in Procs |-> Pc("idle", 0)]
  /\ got = [p \in Procs |-> 0]

Init == InitCommon /\ windowMs \in Windows

\* Time passes; the store evicts what has expired.
Tick ==
  /\ now < MaxTicks * TickMs
  /\ now' = now + TickMs
  /\ store' = Evict(store, now')
  /\ last' = NoOp
  /\ UNCHANGED <<admitted, seen, db, acked, up, windowMs, prev, pre, hist, pc, got>>

StoreDown ==
  /\ up
  /\ up' = FALSE
  /\ last' = NoOp
  /\ UNCHANGED <<admitted, seen, db, acked, store, now, windowMs, prev, hist, pc, got>>

StoreUp ==
  /\ ~up
  /\ up' = TRUE
  /\ last' = NoOp
  /\ UNCHANGED <<admitted, seen, db, acked, store, now, windowMs, prev, hist, pc, got>>

\* hist after a checkRateLimit call for subject s at time t.
Counted(h, s, ws, healthy) ==
  [h EXCEPT ![s] = IF h[s].ws = ws
                   THEN [ws |-> ws, n |-> h[s].n + 1, clean |-> h[s].clean /\ healthy]
                   ELSE [ws |-> ws, n |-> 1, clean |-> healthy]]

CheckRateLimit(s, limit, c) ==
  LET r == checkRateLimit(store, s, limit, windowMs, now, c)
      ws == WindowStart(now, windowMs)
  IN /\ hist[s].ws = ws => hist[s].n < MaxHits
     /\ store' = r.st
     /\ up' = StillUp(r.c)
     /\ last' = [op |-> "checkRateLimit", key |-> s, limit |-> limit,
                 cacheKey |-> RateLimitKey(s, ws),
                 ret |-> r.ret, threw |-> r.threw,
                 faulted |-> Faulted(r.c), down |-> (c = 0)]
     /\ hist' = Counted(hist, s, ws, ~Faulted(r.c))
     /\ UNCHANGED <<db, acked, now, windowMs, prev, pre, pc, got>>

GetRateLimitInfo(s, limit, c) ==
  LET r == getRateLimitInfo(store, s, limit, windowMs, now, c)
  IN /\ store' = r.st
     /\ up' = StillUp(r.c)
     /\ last' = [op |-> "getRateLimitInfo", key |-> s, limit |-> limit,
                 ret |-> r.ret, threw |-> r.threw,
                 faulted |-> Faulted(r.c), down |-> (c = 0)]
     /\ UNCHANGED <<admitted, db, acked, now, windowMs, prev, pre, hist, pc, got>>

ResetRateLimit(s, c) ==
  LET r == resetRateLimit(store, s, c)
  IN /\ store' = r.st
     /\ up' = StillUp(r.c)
     /\ last' = [op |-> "resetRateLimit", key |-> s,
                 ret |-> r.ret, threw |-> r.threw,
                 faulted |-> Faulted(r.c), down |-> (c = 0)]
     /\ hist' = [x \in DOMAIN hist |-> [hist[x] EXCEPT !.clean = FALSE]]
     /\ UNCHANGED <<admitted, seen, db, acked, now, windowMs, prev, pre, pc, got>>

\* A request passes the middleware: one checkRateLimit call, whose result
\* is kept in ret, and the handler's own value in out.
RateLimitMiddleware(s, limit, c) ==
  LET m == rateLimitMiddleware(store, s, limit, windowMs, now, c)
      ws == WindowStart(now, windowMs)
  IN /\ hist[s].ws = ws => hist[s].n < MaxHits
     /\ store' = m.st
     /\ up' = StillUp(m.c)
     /\ last' = [op |-> "middleware", key |-> s, limit |-> limit,
                 cacheKey |-> RateLimitKey(s, ws),
                 ret |-> m.result, out |-> m.ret, threw |-> m.threw,
                 faulted |-> Faulted(m.c), down |-> (c = 0)]
     /\ hist' = Counted(hist, s, ws, ~Faulted(m.c))
     /\ UNCHANGED <<admitted, seen, db, acked, now, windowMs, prev, pre, pc, got>>

Next ==
  \/ Tick
  \/ (StoreDown /\ UNCHANGED pre)
  \/ (StoreUp /\ UNCHANGED pre)
  \/ \E s \in Subjects, limit \in Limits, c \in Budgets(up) :
       CheckRateLimit(s, limit, c) /\ UNCHANGED <<admitted, seen>>
  \/ \E s \in Subjects, limit \in Limits, c \in Budgets(up) :
       GetRateLimitInfo(s, limit, c) /\ UNCHANGED seen
  \/ \E s \in Subjects, c \in Budgets(up) : ResetRateLimit(s, c)
  \/ \E s \in Subjects, limit \in Limits, c \in Budgets(up) : RateLimitMiddleware(s, limit, c)

Spec == Init /\ [][Next]_vars

-----------------------------------------------------------------------------
(* Claims about the limiter, checked under Spec.                           *)

\* C1: with a healthy store and no resetRateLimit, the k-th checkRateLimit
\* call of a subject inside one window returns totalHits = k,
\* allowed = (k <= limit) and remaining = max(0, limit - k).
C1_KthCallCounts ==
  (last.op = "checkRateLimit" /\ hist[last.key].clean) =>
    LET k == hist[last.key].n IN
      /\ last.ret.totalHits = k
      /\ last.ret.allowed = (k <= last.limit)
      /\ last.ret.remaining = (IF k <= last.limit THEN last.limit - k ELSE 0)

\* C1 witness: the call after the limit is used up is denied with remaining 0.
C1_Witness ==
  /\ last.op = "checkRateLimit"
  /\ hist[last.key].clean
  /\ hist[last.key].n = last.limit + 1
  /\ ~last.ret.allowed
  /\ last.ret.remaining = 0

\* C2: a checkRateLimit call made while the store is unreachable returns
\* allowed = true and remaining = limit, whatever was counted before.
C2_FailOpen ==
  (last.op = "checkRateLimit" /\ last.down) =>
    (last.ret.allowed /\ last.ret.remaining = last.limit)

\* C2 witness: the store goes down after the limit was already exceeded.
C2_Witness ==
  /\ last.op = "checkRateLimit"
  /\ last.down
  /\ hist[last.key].n > last.limit + 1
  /\ last.ret.allowed

\* The starts of the windows of size windowMs that the clock can reach.
WindowStarts == {n * windowMs : n \in 0..((MaxTicks * TickMs) \div windowMs)}

\* C5: a call at time t uses the key rate_limit:{subject}:{W} of the one
\* window [W, W + windowMs) that holds t, so calls inside one window share a
\* key and distinct windows have distinct keys; the first call of a window,
\* made exactly at its start on a healthy store, returns totalHits = 1.
C5_WindowBoundary ==
  /\ \A W1, W2 \in WindowStarts :
       W1 # W2 => \A s \in Subjects : RateLimitKey(s, W1) # RateLimitKey(s, W2)
  /\ last.op = "checkRateLimit" =>
       /\ \E W \in WindowStarts :
            /\ W <= now /\ now < W + windowMs
            /\ last.cacheKey = S_rate_limit \o last.key \o S_colon \o NumToStr(W)
       /\ ~last.faulted =>
            /\ last.cacheKey \in DOMAIN store
            /\ store[last.cacheKey].val = ToString(last.ret.totalHits)
       /\ (now % windowMs = 0 /\ hist[last.key].n = 1 /\ ~last.faulted)
            => last.ret.totalHits = 1

\* C5 witness: the first call of the second window, at its very start, while
\* the counter of the first window is still stored.
C5_Witness ==
  /\ last.op = "checkRateLimit"
  /\ now = windowMs
  /\ hist[last.key].n = 1
  /\ last.ret.totalHits = 1
  /\ RateLimitKey(last.key, 0) \in DOMAIN store
  /\ last.cacheKey # RateLimitKey(last.key, 0)

-----------------------------------------------------------------------------
(* Concurrent callers of CacheService.incr on one fresh key.  Each caller  *)
(* awaits INCR and then, if it saw 1, EXPIRE: two round trips, between     *)
(* which other callers run, the store can fail and the caller can die.     *)

FreshKey == RateLimitKey(<<"i", "p", "1">>, 0)
TtlArgs == {1, 2}
InitIncr == InitCommon /\ windowMs = 1000

\* incr(key, ttl) is called.
IncrCall(p, seconds) ==
  /\ pc[p].at = "idle"
  /\ pc' = [pc EXCEPT ![p] = Pc("incr", seconds)]
  /\ UNCHANGED <<admitted, seen, db, acked, store, now, up, windowMs, last, prev, pre, hist, got>>

\* `const result = await this.redis.incr(key)`; on an error the catch
\* block returns 0 (position "caught"; "done" is the normal return).
IncrCommand(p) ==
  /\ pc[p].at = "incr"
  /\ LET r == RedisIncr(store, FreshKey, IF up THEN Healthy ELSE 0) IN
       /\ store' = r.st
       /\ got' = [got EXCEPT ![p] = IF r.err THEN 0 ELSE r.n]
       /\ pc' = [pc EXCEPT ![p] =
                   IF r.err THEN Pc("caught", pc[p].ttl)
                   ELSE IF pc[p].ttl # 0 /\ r.n = 1 THEN Pc("expire", pc[p].ttl)
                   ELSE Pc("done", pc[p].ttl)]
  /\ UNCHANGED <<admitted, seen, db, acked, now, up, windowMs, last, prev, pre, hist>>

\* `await this.redis.expire(key, ttl)`, then `return result`.
ExpireCommand(p) ==
  /\ pc[p].at = "expire"
  /\ LET e == RedisExpire(store, FreshKey, pc[p].ttl, now, IF up THEN Healthy ELSE 0) IN
       /\ store' = e.st
       /\ got' = [got EXCEPT ![p] = IF e.err THEN 0 ELSE got[p]]
       /\ pc' = [pc EXCEPT ![p] = Pc(IF e.err THEN "caught" ELSE "done", pc[p].ttl)]
  /\ UNCHANGED <<admitted, seen, db, acked, now, up, windowMs, last, prev, pre, hist>>

\* The calling process dies between its two commands.
Crash(p) ==
  /\ pc[p].at = "expire"
  /\ pc' = [pc EXCEPT ![p] = Pc("crashed", pc[p].ttl)]
  /\ UNCHANGED <<admitted, seen, db, acked, store, now, up, windowMs, last, prev, pre, hist, got>>

\* Time passes; last records that the counter was evicted.
IncrTick ==
  /\ now < MaxTicks * TickMs
  /\ now' = now + TickMs
  /\ store' = Evict(store, now')
  /\ prev' = IF FreshKey \in DOMAIN store /\ FreshKey \notin DOMAIN store'
             THEN [op |-> "evicted"] ELSE prev
  /\ UNCHANGED <<admitted, seen, db, acked, up, windowMs, last, pre, hist, pc, got>>

IncrNext ==
  \/ \E p \in Procs, seconds \in TtlArgs : IncrCall(p, seconds)
  \/ \E p \in Procs : IncrCommand(p)
  \/ \E p \in Procs : ExpireCommand(p)
  \/ \E p \in Procs : Crash(p)
  \/ IncrTick
  \/ (StoreDown /\ UNCHANGED pre)
  \/ (StoreUp /\ UNCHANGED pre)

IncrSpec == InitIncr /\ [][IncrNext]_vars

\* C3: when every one of the N callers has returned from its single incr
\* call on the fresh key, no command erred and the key did not expire
\* meanwhile, the counter is N and the returned values are exactly 1..N.
C3_IncrAtomic ==
  ( /\ \A p \in Procs : pc[p].at = "done"
    /\ prev.op # "evicted" )
  => /\ FreshKey \in DOMAIN store
     /\ store[FreshKey].val = ToString(NProcs)
     /\ {got[p] : p \in Procs} = 1..NProcs

\* C3 witness: all callers returned a count and the counter carries its TTL.
C3_Witness ==
  /\ \A p \in Procs : pc[p].at = "done"
  /\ prev.op # "evicted"
  /\ FreshKey \in DOMAIN store
  /\ store[FreshKey].exp # NoExpiry
  /\ store[FreshKey].val = ToString(NProcs)

\* C4: no reachable state holds a counter key created by incr(key, ttl)
\* with a value >= 1 and no expiry attached.
C4_CounterAlwaysHasExpiry ==
  FreshKey \in DOMAIN store => store[FreshKey].exp # NoExpiry

\* C4, the lasting case: every caller is finished (returned or dead) and the
\* counter still has no expiry, so it never leaves the store.
C4_NoImmortalCounter ==
  (\A p \in Procs : pc[p].at \in {"done", "caught", "crashed"})
    => (FreshKey \in DOMAIN store => store[FreshKey].exp # NoExpiry)

-----------------------------------------------------------------------------
(* CacheService driven directly: one key of the page cache.              *)

PayloadKey == CACHE_KEYS_USER_EXPENSES(<<"4", "2">>, 1, 20)
CacheKeys == {PayloadKey}
JsValues == {JsNum(0), JsNaN, JsStr("a"), JsObj(1)}
TtlSeconds == {1, 2}
BadPayload == "{\"id\":"       \* a truncated payload: not JSON

\* prev, the latest successful set, once a key of K was written or deleted
\* by something else.
Forget(r, K) == IF r.op = "set" /\ r.key \in K THEN NoOp ELSE r

\* What the caller of one CacheService method saw.  bad: the command is one
\* the store rejects (a TTL that is not positive, INCR of a payload that is
\* not an integer) or, for get, the payload read is not JSON.
OpRecord(op, key, r, c, bad) ==
  [op |-> op, key |-> key, ret |-> r.ret, threw |-> r.threw,
   faulted |-> Faulted(r.c), down |-> (c = 0), bad |-> bad]

Holds(key, text) == key \in DOMAIN store /\ store[key].val = text

Set(key, value, seconds, c) ==
  LET r == set(store, key, value, seconds, now, c) IN
  /\ store' = r.st
  /\ up' = StillUp(r.c)
  /\ last' = OpRecord("set", key, r, c, seconds <= 0)
  /\ UNCHANGED <<admitted, seen, db, acked, now, windowMs, hist, pc, got>>

\* prev: the latest set that returned true.
LatestSet(key, value, seconds) ==
  prev' = IF last'.ret = JsBool(TRUE)
          THEN [op |-> "set", key |-> key, value |-> value,
                seconds |-> seconds, at |-> now]
          ELSE prev

Get(key, c) ==
  LET r == get(store, key, c) IN
  /\ store' = r.st
  /\ up' = StillUp(r.c)
  /\ last' = OpRecord("get", key, r, c, Holds(key, BadPayload))
  /\ UNCHANGED <<admitted, seen, db, acked, now, windowMs, prev, hist, pc, got>>

Del(key, c) ==
  LET r == del(store, key, c) IN
  /\ store' = r.st
  /\ up' = StillUp(r.c)
  /\ last' = OpRecord("del", key, r, c, FALSE)
  /\ prev' = Forget(prev, {key})
  /\ UNCHANGED <<admitted, seen, db, acked, now, windowMs, hist, pc, got>>

DelPattern(pattern, c) ==
  LET r == delPattern(store, pattern, c) IN
  /\ store' = r.st
  /\ up' = StillUp(r.c)
  /\ last' = OpRecord("delPattern", pattern, r, c, FALSE)
  /\ prev' = Forget(prev, DOMAIN store \ DOMAIN r.st)
  /\ UNCHANGED <<admitted, seen, db, acked, now, windowMs, hist, pc, got>>

Exists(key, c) ==
  LET r == exists(store, key, c) IN
  /\ store' = r.st
  /\ up' = StillUp(r.c)
  /\ last' = OpRecord("exists", key, r, c, FALSE)
  /\ UNCHANGED <<admitted, seen, db, acked, now, windowMs, prev, hist, pc, got>>

Ttl(key, c) ==
  LET r == ttl(store, key, now, c) IN
  /\ store' = r.st
  /\ up' = StillUp(r.c)
  /\ last' = OpRecord("ttl", key, r, c, FALSE)
  /\ UNCHANGED <<admitted, seen, db, acked, now, windowMs, prev, hist, pc, got>>

Incr(key, seconds, c) ==
  LET r == incr(store, key, seconds, now, c) IN
  /\ (key \in DOMAIN store /\ IsIntText(store[key].val))
       => IntOfText(store[key].val) < MaxHits
  /\ store' = r.st
  /\ up' = StillUp(r.c)
  /\ last' = OpRecord("incr", key, r, c,
                      key \in DOMAIN store /\ ~IsIntText(store[key].val))
  /\ prev' = Forget(prev, {key})
  /\ UNCHANGED <<admitted, seen, db, acked, now, windowMs, hist, pc, got>>

\* Another client of the shared store (getRedis()) writes a payload that
\* is not JSON.
RawWrite(key, seconds) ==
  /\ up
  /\ store' = RedisSetex(store, key, seconds, BadPayload, now, Healthy).st
  /\ last' = NoOp
  /\ prev' = Forget(prev, {key})
  /\ UNCHANGED <<admitted, seen, db, acked, now, up, windowMs, hist, pc, got>>

\* A call of a method wrapped by Cacheable whose generated key is key and
\* whose own result would be result.
CallCacheable(key, result, seconds, c) ==
  LET r == Cacheable(store, key, result, seconds, now, c) IN
  /\ store' = r.st
  /\ up' = StillUp(r.c)
  /\ last' = [op |-> "Cacheable", key |-> key, ret |-> r.ret, threw |-> r.threw,
              faulted |-> Faulted(r.c), down |-> (c = 0), bad |-> FALSE,
              invoked |-> r.invoked, result |-> result, seconds |-> seconds]
  /\ prev' = Forget(prev, IF r.st = store THEN {} ELSE {key})
  /\ UNCHANGED <<admitted, seen, db, acked, now, windowMs, hist, pc, got>>

CacheTick ==
  /\ now < MaxTicks * TickMs
  /\ now' = now + TickMs
  /\ store' = Evict(store, now')
  /\ last' = NoOp
  /\ UNCHANGED <<admitted, seen, db, acked, up, windowMs, prev, hist, pc, got>>

CacheNext ==
  \/ (CacheTick /\ UNCHANGED pre)
  \/ (StoreDown /\ UNCHANGED pre)
  \/ (StoreUp /\ UNCHANGED pre)
  \/ \E v \in JsValues, seconds \in {0} \cup TtlSeconds, c \in Budgets(up) :
       Set(PayloadKey, v, seconds, c) /\ LatestSet(PayloadKey, v, seconds)
         /\ UNCHANGED pre
  \/ \E k \in CacheKeys, c \in Budgets(up) : Get(k, c) /\ UNCHANGED pre
  \/ \E k \in CacheKeys, c \in Budgets(up) : Del(k, c) /\ UNCHANGED pre
  \/ \E c \in Budgets(up) :
       DelPattern(CACHE_PATTERNS_USER_EXPENSES(<<"4", "2">>), c) /\ UNCHANGED pre
  \/ \E k \in CacheKeys, c \in Budgets(up) : Exists(k, c) /\ UNCHANGED pre
  \/ \E k \in CacheKeys, c \in Budgets(up) : Ttl(k, c) /\ UNCHANGED pre
  \/ \E seconds \in {0} \cup TtlSeconds, c \in Budgets(up) :
       Incr(PayloadKey, seconds, c) /\ UNCHANGED pre
  \/ \E seconds \in TtlSeconds : RawWrite(PayloadKey, seconds) /\ UNCHANGED pre
  \/ \E result \in JsValues \cup {JsNull, JsUndefined}, seconds \in TtlSeconds,
          c \in Budgets(up) :
       CallCacheable(PayloadKey, result, seconds, c) /\ UNCHANGED pre

CacheSpec == InitIncr /\ [][CacheNext]_vars

\* The get that has just returned follows a successful set of the same key
\* with no time elapsed and nothing else written in between, and the store
\* answered it.
SetThenGet ==
  /\ last.op = "get" /\ ~last.faulted
  /\ prev.op = "set" /\ prev.key = last.key /\ prev.at = now

\* The get that has just returned was issued more than the TTL after the
\* latest set of the key.
GetAfterTtl ==
  /\ last.op = "get"
  /\ prev.op = "set" /\ prev.key = last.key
  /\ now > prev.at + prev.seconds * MsPerSec

\* A value JSON text represents: parsing its JSON text gives an equal value.
\* NaN is not one (nor are Infinity, undefined, a Date, a Map ...).
JsonValue(v) == ~(v.t = "number" /\ v.s = "NaN")

\* C9 as stated: for ALL values v and t > 0, set(k, v, t) immediately
\* followed by get(k) returns a value equal to v, and a get issued more than
\* t seconds after the set returns absent.
C9_RoundTripAnyValue ==
  /\ SetThenGet => last.ret = prev.value
  /\ GetAfterTtl => last.ret = JsNull

\* C9 amended: for all values v that JSON represents and t > 0, on a store
\* that answers, set(k, v, t) immediately followed by get(k) returns a value
\* equal to v; a get issued more than t seconds after the set (no set in
\* between) returns absent.
C9_RoundTripJsonValue ==
  /\ (SetThenGet /\ JsonValue(prev.value)) => last.ret = prev.value
  /\ GetAfterTtl => last.ret = JsNull

C9_Witness ==
  /\ SetThenGet /\ prev.value = JsNum(0) /\ prev.seconds = 1
  /\ last.ret = JsNum(0)
  /\ store[PayloadKey].exp = now + MsPerSec

SafeDefault(op) ==
  CASE op = "get" -> JsNull
    [] op = "set" -> JsBool(FALSE)
    [] op = "del" -> JsBool(FALSE)
    [] op = "delPattern" -> JsNum(0)
    [] op = "exists" -> JsBool(FALSE)
    [] op = "ttl" -> JsNum(-1)
    [] op = "incr" -> JsNum(0)

CacheOps == {"get", "set", "del", "delPattern", "exists", "ttl", "incr"}

\* C10: no CacheService operation throws; when one of its store commands
\* fails (the store is unreachable, stops answering during the operation, or
\* rejects the command) or, for get, the payload is malformed, it returns its
\* safe default: get null, set false, del false, delPattern 0, exists false,
\* ttl -1, incr 0.
C10_Defensive ==
  last.op \in CacheOps =>
    /\ ~last.threw
    /\ (last.down \/ last.faulted \/ last.bad) => last.ret = SafeDefault(last.op)

\* incr: INCR created the counter, EXPIRE failed; the caller is told 0.
C10_Witness ==
  /\ last.op = "incr" /\ last.faulted /\ ~last.down
  /\ last.ret = JsNum(0) /\ ~last.threw
  /\ Holds(last.key, "1")

-----------------------------------------------------------------------------
(* CacheInvalidator.  Each method awaits delPattern for its patterns in    *)
(* order; delPattern never throws, so every pattern is tried.              *)

RECURSIVE delPatterns(_, _, _)
delPatterns(st, patterns, c) ==
  IF patterns = <<>> THEN [st |-> st, c |-> c, threw |-> FALSE]
  ELSE LET r == delPattern(st, Head(patterns), c)
       IN IF r.threw THEN [st |-> r.st, c |-> r.c, threw |-> TRUE]
          ELSE delPatterns(r.st, Tail(patterns), r.c)

invalidateUser(st, userId, c) ==
  delPatterns(st, <<CACHE_PATTERNS_USER_ALL(userId),
                    CACHE_PATTERNS_USER_CATEGORIES(userId),
                    CACHE_PATTERNS_USER_EXPENSES(userId)>>, c)

\* Mutant: the userId argument is ignored.
invalidateCategory_noUser(st, categoryId, userId, c) ==
  delPatterns(st, <<CACHE_PATTERNS_CATEGORY_ALL(categoryId)>>, c)

\* userId = <<>> stands for an omitted (or empty) userId, both falsy.
invalidateCategory(st, categoryId, userId, c) ==
  delPatterns(st, <<CACHE_PATTERNS_CATEGORY_ALL(categoryId)>>
                  \o (IF userId # <<>> THEN <<CACHE_PATTERNS_USER_CATEGORIES(userId)>>
                      ELSE <<>>), c)

invalidateExpense(st, expenseId, userId, c) ==
  delPatterns(st, <<CACHE_PATTERNS_EXPENSE_ALL(expenseId)>>
                  \o (IF userId # <<>> THEN <<CACHE_PATTERNS_USER_EXPENSES(userId)>>
                      ELSE <<>>), c)

\* Mutant: only the first page is purged.
invalidateUserExpenses_firstPage(st, userId, c) ==
  delPatterns(st, <<CACHE_KEYS_USER_EXPENSES(userId, 1, 20)>>, c)

invalidateUserExpenses(st, userId, c) ==
  delPatterns(st, <<CACHE_PATTERNS_USER_EXPENSES(userId)>>, c)

invalidateUserCategories(st, userId, c) ==
  delPatterns(st, <<CACHE_PATTERNS_USER_CATEGORIES(userId)>>, c)

-----------------------------------------------------------------------------
(* Cached views of two users, a category and an expense, and the           *)
(* invalidations the routes issue.                                         *)

CACHE_TTL_SHORT == 300
S_x == <<":", "x">>
Users == {<<"4">>, <<"4", "2">>}
Ids == {7, 8}
UserKeys(u) ==
  {CACHE_KEYS_USER(u), CACHE_KEYS_USER_CATEGORIES(u),
   CACHE_KEYS_USER_CATEGORIES(u) \o S_x,
   CACHE_KEYS_USER_EXPENSES(u, 1, 20), CACHE_KEYS_USER_EXPENSES(u, 2, 20),
   CACHE_KEYS_USER_EXPENSE_COUNT(u)}
ViewKeys ==
  UserKeys(<<"4", "2">>)
  \cup {CACHE_KEYS_USER_CATEGORIES(<<"4">>), CACHE_KEYS_USER_EXPENSES(<<"4">>, 0, 0)}
  \cup {CACHE_KEYS_CATEGORY(7), CACHE_KEYS_CATEGORY_EXPENSE_COUNT(7),
        CACHE_KEYS_EXPENSE(7)}

InvRecord(op, userId, id, r, c) ==
  [op |-> op, userId |-> userId, id |-> id, threw |-> r.threw,
   faulted |-> Faulted(r.c), down |-> (c = 0)]

CacheView(key, c) ==
  /\ key \in DOMAIN store \/ Cardinality(DOMAIN store) < MaxLive
  /\ Set(key, JsObj(1), CACHE_TTL_SHORT, c)
  /\ pre' = store
  /\ UNCHANGED prev

InvalidateUser(userId, c) ==
  LET r == invalidateUser(store, userId, c) IN
  /\ store' = r.st
  /\ up' = StillUp(r.c)
  /\ last' = InvRecord("invalidateUser", userId, 0, r, c)
  /\ pre' = store
  /\ UNCHANGED <<admitted, seen, db, acked, now, windowMs, prev, hist, pc, got>>

InvalidateCategory(categoryId, userId, c) ==
  LET r == invalidateCategory(store, categoryId, userId, c) IN
  /\ store' = r.st
  /\ up' = StillUp(r.c)
  /\ last' = InvRecord("invalidateCategory", userId, categoryId, r, c)
  /\ pre' = store
  /\ UNCHANGED <<admitted, seen, db, acked, now, windowMs, prev, hist, pc, got>>

InvalidateExpense(expenseId, userId, c) ==
  LET r == invalidateExpense(store, expenseId, userId, c) IN
  /\ store' = r.st
  /\ up' = StillUp(r.c)
  /\ last' = InvRecord("invalidateExpense", userId, expenseId, r, c)
  /\ pre' = store
  /\ UNCHANGED <<admitted, seen, db, acked, now, windowMs, prev, hist, pc, got>>

InvalidateUserExpenses(userId, c) ==
  LET r == invalidateUserExpenses(store, userId, c) IN
  /\ store' = r.st
  /\ up' = StillUp(r.c)
  /\ last' = InvRecord("invalidateUserExpenses", userId, 0, r, c)
  /\ pre' = store
  /\ UNCHANGED <<admitted, seen, db, acked, now, windowMs, prev, hist, pc, got>>

InvalidateUserCategories(userId, c) ==
  LET r == invalidateUserCategories(store, userId, c) IN
  /\ store' = r.st
  /\ up' = StillUp(r.c)
  /\ last' = InvRecord("invalidateUserCategories", userId, 0, r, c)
  /\ pre' = store
  /\ UNCHANGED <<admitted, seen, db, acked, now, windowMs, prev, hist, pc, got>>

\* Patterns delPattern is called with directly.
BulkPatterns ==
  {CACHE_PATTERNS_USER_EXPENSES(<<"4", "2">>), CACHE_PATTERNS_USER_ALL(<<"4">>),
   CACHE_PATTERNS_CATEGORY_ALL(8)}

InvalNext ==
  \/ (StoreDown /\ pre' = store)
  \/ (StoreUp /\ pre' = store)
  \/ \E k \in ViewKeys : CacheView(k, IF up THEN Healthy ELSE 0)
  \/ \E u \in Users, c \in Budgets(up) : InvalidateUser(u, c)
  \/ \E id \in Ids, u \in Users \cup {<<>>}, c \in Budgets(up) :
       InvalidateCategory(id, u, c)
  \/ \E id \in Ids, u \in Users \cup {<<>>}, c \in Budgets(up) :
       InvalidateExpense(id, u, c)
  \/ \E u \in Users, c \in Budgets(up) : InvalidateUserExpenses(u, c)
  \/ \E u \in Users, c \in Budgets(up) : InvalidateUserCategories(u, c)
  \/ \E pattern \in BulkPatterns, c \in Budgets(up) :
       DelPattern(pattern, c) /\ pre' = store

InvalSpec == InitIncr /\ [][InvalNext]_vars

\* What get(key) returns once the store answers.
Read(st, key) == get(st, key, Healthy).ret

ExpensesPrefix(u) == S_user \o u \o S_expenses
CategoriesPrefix(u) == S_user \o u \o S_categories

\* C6: when invalidateUserExpenses(u) has returned, the store having answered
\* its commands, get finds no key user:{u}:expenses... that was set before
\* the call; every key user:{u}:categories... set before the call (answered
\* commands or not) is still read with the value it had.
C6_InvalidationComplete ==
  last.op = "invalidateUserExpenses" =>
    /\ ~last.faulted =>
         \A k \in DOMAIN pre :
           IsPrefix(ExpensesPrefix(last.userId), k) => Read(store, k) = JsNull
    /\ \A k \in DOMAIN pre :
         IsPrefix(CategoriesPrefix(last.userId), k) =>
           /\ Read(store, k) # JsNull
           /\ Read(store, k) = Read(pre, k)

C6_Witness ==
  /\ last.op = "invalidateUserExpenses" /\ ~last.faulted
  /\ last.userId = <<"4", "2">>
  /\ Read(pre, CACHE_KEYS_USER_EXPENSES(<<"4", "2">>, 1, 20)) = JsObj(1)
  /\ Read(store, CACHE_KEYS_USER_EXPENSES(<<"4", "2">>, 1, 20)) = JsNull
  /\ CACHE_KEYS_USER_EXPENSES(<<"4", "2">>, 2, 20) \in DOMAIN pre \ DOMAIN store
  /\ Read(store, CACHE_KEYS_USER_CATEGORIES(<<"4", "2">>) \o S_x) = JsObj(1)

\* The keys the call that has just returned may delete are those under
\* prefix P and, when a userId was passed, under prefix Q: every other key
\* is left as it was, nothing is added, and when the store answered the
\* commands every key under P (and Q) is gone.
Scope(P, Q) ==
  LET inScope(k) == IsPrefix(P, k) \/ (last.userId # <<>> /\ IsPrefix(Q, k)) IN
  /\ DOMAIN store \subseteq DOMAIN pre
  /\ \A k \in DOMAIN pre : ~inScope(k) => (k \in DOMAIN store /\ store[k] = pre[k])
  /\ ~last.faulted => \A k \in DOMAIN pre : inScope(k) => k \notin DOMAIN store

\* C7: invalidateCategory(id) deletes only keys category:{id}... and leaves
\* every user:{u}:categories... key untouched; with a userId it also deletes
\* that user's user:{userId}:categories... keys and no other user's.
\* invalidateExpense likewise with expense:{id}... and user:{u}:expenses...
C7_PatternScope ==
  /\ last.op = "invalidateCategory" =>
       Scope(S_category \o NumToStr(last.id), CategoriesPrefix(last.userId))
  /\ last.op = "invalidateExpense" =>
       Scope(S_expense \o NumToStr(last.id), ExpensesPrefix(last.userId))

C7_Witness ==
  /\ last.op = "invalidateCategory" /\ ~last.faulted
  /\ last.id = 7 /\ last.userId = <<"4", "2">>
  /\ CACHE_KEYS_CATEGORY(7) \in DOMAIN pre \ DOMAIN store
  /\ CACHE_KEYS_USER_CATEGORIES(<<"4", "2">>) \in DOMAIN pre \ DOMAIN store
  /\ CACHE_KEYS_USER_CATEGORIES(<<"4">>) \in DOMAIN store

\* C8: when invalidateUser(userId) has returned on a healthy store, get finds
\* no key with the prefix user:{userId} that was set before the call.
C8_InvalidateUser ==
  (last.op = "invalidateUser" /\ ~last.faulted) =>
    \A k \in DOMAIN pre :
      IsPrefix(S_user \o last.userId, k) => Read(store, k) = JsNull

C8_Witness ==
  /\ last.op = "invalidateUser" /\ ~last.faulted
  /\ last.userId = <<"4", "2">>
  /\ {CACHE_KEYS_USER(<<"4", "2">>), CACHE_KEYS_USER_CATEGORIES(<<"4", "2">>),
      CACHE_KEYS_USER_EXPENSE_COUNT(<<"4", "2">>)} \subseteq DOMAIN pre
  /\ store = EmptyStore

\* Keys of store st the pattern matches.
Matching(st, pattern) == {k \in DOMAIN st : GlobMatch(pattern, k)}

\* C11: delPattern(pattern) returns the number of keys it deleted, and 0 if
\* no key matched or a store command failed; when the store answered, no
\* key matching the pattern is left; every non-matching key is unchanged.
C11_DelPatternCount ==
  last.op = "delPattern" =>
    /\ last.ret = JsNum(Cardinality(DOMAIN pre \ DOMAIN store))
    /\ (Matching(pre, last.key) = {} \/ last.faulted) => last.ret = JsNum(0)
    /\ ~last.faulted => Matching(store, last.key) = {}
    /\ DOMAIN store \subseteq DOMAIN pre
    /\ \A k \in DOMAIN pre \ Matching(pre, last.key) :
         k \in DOMAIN store /\ store[k] = pre[k]

C11_Witness ==
  /\ last.op = "delPattern" /\ ~last.faulted
  /\ last.key = CACHE_PATTERNS_USER_EXPENSES(<<"4", "2">>)
  /\ Cardinality(Matching(pre, last.key)) = 2
  /\ last.ret = JsNum(2)
  /\ DOMAIN store = {CACHE_KEYS_USER_CATEGORIES(<<"4", "2">>)}

\* The counter Redis holds under key k, 0 if there is none.
StoredCount(st, k) == IF k \in DOMAIN st THEN IntOfText(st[k].val) ELSE 0

\* C12: a getRateLimitInfo call changes neither the counter nor its expiry
\* (the store is left as it was); when the store answers, the totalHits it
\* returns is the counter stored for the current window, 0 if there is none,
\* hence k after k checkRateLimit calls in the window.
C12_InfoReadOnly ==
  [][last'.op = "getRateLimitInfo" =>
       LET s == last'.key
           ws == WindowStart(now, windowMs)
       IN /\ store' = store
          /\ hist' = hist
          /\ ~last'.faulted =>
               last'.ret.totalHits = StoredCount(store, RateLimitKey(s, ws))
          /\ (~last'.faulted /\ hist[s].clean /\ hist[s].ws = ws) =>
               last'.ret.totalHits = hist[s].n]_vars

C12_Witness ==
  /\ last.op = "getRateLimitInfo" /\ ~last.faulted
  /\ hist[last.key].clean /\ hist[last.key].n = 2
  /\ hist[last.key].ws = WindowStart(now, windowMs)
  /\ last.ret.totalHits = 2
  /\ store[RateLimitKey(last.key, WindowStart(now, windowMs))].val = "2"

\* The window counters of subject s held by store st.
CountersOf(st, s) == {k \in DOMAIN st : IsPrefix(S_rate_limit \o s \o S_colon, k)}

\* C13: resetRateLimit(subject) returns true iff it deleted at least one
\* key, false when the subject had no counter or a store command failed;
\* when the store answered, no window counter of the subject is left; and a
\* checkRateLimit of the subject that finds no counter of its window, as
\* the one following a successful reset does, returns totalHits = 1.
C13_Reset ==
  [][/\ last'.op = "resetRateLimit" =>
          /\ last'.ret = JsBool(DOMAIN store' # DOMAIN store)
          /\ (CountersOf(store, last'.key) = {} \/ last'.faulted) =>
               last'.ret = JsBool(FALSE)
          /\ ~last'.faulted => CountersOf(store', last'.key) = {}
          /\ DOMAIN store' \subseteq DOMAIN store
     /\ (last'.op = "checkRateLimit" /\ ~last'.faulted
         /\ (CountersOf(store, last'.key) = {}
             \/ (last.op = "resetRateLimit" /\ last.key = last'.key
                 /\ last.ret = JsBool(TRUE))))
          => last'.ret.totalHits = 1]_vars

C13_Witness ==
  /\ last.op = "resetRateLimit" /\ ~last.faulted
  /\ last.ret = JsBool(TRUE)
  /\ hist[last.key].n = 2
  /\ CountersOf(store, last.key) = {}

-----------------------------------------------------------------------------
(* The route handlers of one user.  A handler runs up to each await on the *)
(* data layer or the cache and other requests run in between; pc[p] is the *)
(* position of request p and got[p] the rows it holds (their version).     *)

MaxCommits == 2                      \* commits to the user's expense rows
MaxRequests == 2                     \* requests in flight at once
Requests == 1..MaxRequests
AI_ANALYSIS_TTL == 3600
AI_SUGGESTIONS_TTL == 7200
DefaultMonthsBack == 3               \* `query.monthsBack || 3`
S_ai_analysis == <<"a", "i", "_", "a", "n", "a", "l", "y", "s", "i", "s", "_">>
S_ai_suggestions ==
  <<"a", "i", "_", "s", "u", "g", "g", "e", "s", "t", "i", "o", "n", "s", "_">>
S_underscore == <<"_">>

RouteUser == <<"4", "2">>
ListKey == CACHE_KEYS_USER_EXPENSES(RouteUser, 1, 20)
\* `ai_analysis_${user.id}_${monthsBack}`, `ai_suggestions_${user.id}_${monthsBack}`
AiAnalysisKey(userId, monthsBack) ==
  S_ai_analysis \o userId \o S_underscore \o NumToStr(monthsBack)
AiSuggestionsKey(userId, monthsBack) ==
  S_ai_suggestions \o userId \o S_underscore \o NumToStr(monthsBack)

Rq(at, since) == [at |-> at, since |-> since]
Conn == IF up THEN Healthy ELSE 0
\* `if (cached)`
Truthy(v) == OrZero(v) # JsNum(0)

\* The response a handler has just returned.  data: version of the rows it
\* carries; since: acked when the request arrived; cached: served from the
\* cache; inv: an invalidate* call was awaited before the response.
Response(op, status, data, since, cached, inv, faulted) ==
  [op |-> op, status |-> status, data |-> data, since |-> since,
   cached |-> cached, inv |-> inv, faulted |-> faulted]

InitRoutes ==
  /\ store = EmptyStore
  /\ now = 0
  /\ up = TRUE
  /\ windowMs = 1000
  /\ last = NoOp
  /\ prev = NoOp
  /\ pre = EmptyStore
  /\ hist = [s \in Subjects |-> [ws |-> -1, n |-> 0, clean |-> TRUE]]
  /\ pc = [p \in Requests |-> Rq("idle", 0)]
  /\ got = [p \in Requests |-> 0]
  /\ db = 0
  /\ acked = 0
  /\ admitted = <<>>
  /\ seen = NoOp

\* GET /expenses: `cached = await cache.get(cacheKey)`; a hit is returned.
GetLookup(p) ==
  /\ pc[p].at = "idle"
  /\ LET r == get(store, ListKey, Conn) IN
       /\ store' = r.st
       /\ IF Truthy(r.ret)
          THEN /\ last' = Response("GET /expenses", 200, r.ret.n, acked, TRUE, FALSE,
                                   Faulted(r.c))
               /\ pc' = pc
          ELSE /\ last' = NoOp
               /\ pc' = [pc EXCEPT ![p] = Rq("read", acked)]
  /\ UNCHANGED <<admitted, seen, now, up, windowMs, prev, pre, hist, got, db, acked>>

\* GET /expenses: `await ExpenseService.getExpenses(...)`.
GetRead(p) ==
  /\ pc[p].at = "read"
  /\ got' = [got EXCEPT ![p] = db]
  /\ pc' = [pc EXCEPT ![p] = Rq("store", pc[p].since)]
  /\ last' = NoOp
  /\ UNCHANGED <<admitted, seen, store, now, up, windowMs, prev, pre, hist, db, acked>>

\* GET /expenses: `await cache.set(cacheKey, data, CACHE_TTL.SHORT)`, then 200.
GetStore(p) ==
  /\ pc[p].at = "store"
  /\ LET r == set(store, ListKey, JsObj(got[p]), CACHE_TTL_SHORT, now, Conn) IN
       /\ store' = r.st
       /\ last' = Response("GET /expenses", 200, got[p], pc[p].since, FALSE, FALSE,
                           Faulted(r.c))
  /\ pc' = [pc EXCEPT ![p] = Rq("idle", 0)]
  /\ got' = [got EXCEPT ![p] = 0]
  /\ UNCHANGED <<admitted, seen, now, up, windowMs, prev, pre, hist, db, acked>>

\* POST /expenses: `await ExpenseService.createExpense(...)`; 400 on error.
PostCommit(p, ok) ==
  /\ pc[p].at = "idle"
  /\ IF ok
     THEN /\ db < MaxCommits
          /\ db' = db + 1
          /\ got' = [got EXCEPT ![p] = db + 1]
          /\ pc' = [pc EXCEPT ![p] = Rq("invalidate", 0)]
          /\ last' = NoOp
     ELSE /\ last' = Response("POST /expenses", 400, 0, 0, FALSE, FALSE, FALSE)
          /\ UNCHANGED <<db, got, pc>>
  /\ UNCHANGED <<admitted, seen, store, now, up, windowMs, prev, pre, hist, acked>>

\* POST /expenses: `await cacheInvalidator.invalidateUserExpenses(user.id)`,
\* then 201.
PostInvalidate(p) ==
  /\ pc[p].at = "invalidate"
  /\ LET r == invalidateUserExpenses(store, RouteUser, Conn) IN
       /\ store' = r.st
       /\ last' = Response("POST /expenses", 201, got[p], 0, FALSE, TRUE, Faulted(r.c))
  /\ acked' = Max(acked, got[p])
  /\ pc' = [pc EXCEPT ![p] = Rq("idle", 0)]
  /\ got' = [got EXCEPT ![p] = 0]
  /\ UNCHANGED <<admitted, seen, now, up, windowMs, prev, pre, hist, db>>

\* PATCH /expenses/:id: `await ExpenseService.updateExpense(...)`, then 200
\* (400 on error).
PatchExpense(ok) ==
  /\ IF ok
     THEN /\ db < MaxCommits
          /\ db' = db + 1
          /\ last' = Response("PATCH /expenses/:id", 200, db + 1, 0, FALSE, FALSE, FALSE)
     ELSE /\ last' = Response("PATCH /expenses/:id", 400, 0, 0, FALSE, FALSE, FALSE)
          /\ UNCHANGED db
  /\ UNCHANGED <<admitted, seen, store, now, up, windowMs, prev, pre, hist, pc, got, acked>>

\* DELETE /expenses/:id: `await ExpenseService.deleteExpense(...)`, then 200
\* (404 when nothing was deleted).
DeleteExpense(ok) ==
  /\ IF ok
     THEN /\ db < MaxCommits
          /\ db' = db + 1
          /\ last' = Response("DELETE /expenses/:id", 200, db + 1, 0, FALSE, FALSE, FALSE)
     ELSE /\ last' = Response("DELETE /expenses/:id", 404, 0, 0, FALSE, FALSE, FALSE)
          /\ UNCHANGED db
  /\ UNCHANGED <<admitted, seen, store, now, up, windowMs, prev, pre, hist, pc, got, acked>>

\* GET /ai/analyze and GET /ai/suggestions: cache.get, on a miss the result
\* is computed from the rows and cached under key with the given TTL.
AiHandler(op, key, seconds) ==
  LET r == get(store, key, Conn) IN
  /\ IF Truthy(r.ret)
     THEN /\ store' = r.st
          /\ last' = Response(op, 200, r.ret.n, acked, TRUE, FALSE, Faulted(r.c))
     ELSE LET w == set(r.st, key, JsObj(db), seconds, now, Conn) IN
          /\ store' = w.st
          /\ last' = Response(op, 200, db, acked, FALSE, FALSE, Faulted(w.c))
  /\ UNCHANGED <<admitted, seen, now, up, windowMs, prev, pre, hist, pc, got, db, acked>>

GetAnalysis ==
  AiHandler("GET /ai/analyze", AiAnalysisKey(RouteUser, DefaultMonthsBack),
            AI_ANALYSIS_TTL)

GetSuggestions ==
  AiHandler("GET /ai/suggestions", AiSuggestionsKey(RouteUser, DefaultMonthsBack),
            AI_SUGGESTIONS_TTL)

RouteNext ==
  \/ \E p \in Requests : GetLookup(p)
  \/ \E p \in Requests : GetRead(p)
  \/ \E p \in Requests : GetStore(p)
  \/ \E p \in Requests, ok \in BOOLEAN : PostCommit(p, ok)
  \/ \E p \in Requests : PostInvalidate(p)
  \/ \E ok \in BOOLEAN : PatchExpense(ok)
  \/ \E ok \in BOOLEAN : DeleteExpense(ok)

RouteSpec == InitRoutes /\ [][RouteNext]_vars

\* Every cached view of the user and the purge of the user's namespace.
ViewNext ==
  \/ GetLookup(1)
  \/ GetRead(1)
  \/ GetStore(1)
  \/ \E ok \in BOOLEAN : PatchExpense(ok)
  \/ GetAnalysis
  \/ GetSuggestions
  \/ InvalidateUser(RouteUser, Conn)

ViewSpec == InitRoutes /\ [][ViewNext]_vars

Mutating == {"POST /expenses", "PATCH /expenses/:id", "DELETE /expenses/:id"}

\* C14: a handler that mutated the user's expenses has awaited the
\* invalidation of the user's expense-list keys before it returns its 2xx
\* response, so that no such key is cached when the response is returned.
C14_InvalidateBeforeSuccess ==
  (last.op \in Mutating /\ last.status \in {200, 201}) =>
    /\ last.inv
    /\ Matching(store, CACHE_PATTERNS_USER_EXPENSES(RouteUser)) = {}

\* C15: a GET /expenses that arrived after a POST /expenses answered 201
\* does not return rows older than those the POST committed.
C15_NoStaleReadAfterPost ==
  (last.op = "GET /expenses" /\ last.status = 200) => last.data >= last.since

\* C16: every key under which a view of the user's data is cached starts
\* with user:{userId}, and when invalidateUser(userId) has returned on a store
\* that answers, no cached view of the user is left.
C16_UserNamespace ==
  /\ \A k \in DOMAIN store : IsPrefix(S_user \o RouteUser, k)
  /\ (last.op = "invalidateUser" /\ ~last.faulted) => store = EmptyStore

\* C18: the middleware answers 429 with success false, message "Too many
\* requests", error "Rate limit exceeded" and a retryAfter iff checkRateLimit
\* reported totalHits > limit, and otherwise returns nothing; either way the
\* headers carry Limit = limit, Remaining = result.remaining and
\* Used = result.totalHits.
C18_Deny429 ==
  last.op = "middleware" =>
    /\ ~last.out.continue <=> last.ret.totalHits > last.limit
    /\ ~last.out.continue =>
         /\ last.out.status = 429 /\ last.out.success = FALSE
         /\ last.out.message = "Too many requests"
         /\ last.out.error = "Rate limit exceeded"
         /\ last.out.retryAfter \in Int
    /\ last.out.continue => last.out.status # 429
    /\ last.out.headers.Limit = last.limit
    /\ last.out.headers.Remaining = last.ret.remaining
    /\ last.out.headers.Used = last.ret.totalHits

C18_Witness ==
  /\ last.op = "middleware" /\ ~last.faulted
  /\ last.limit = 2 /\ last.ret.totalHits = 3
  /\ last.out.status = 429
  /\ last.out.headers = [Limit |-> 2, Remaining |-> 0,
                         Reset |-> CeilDiv(last.ret.resetTime, MsPerSec), Used |-> 3]

-----------------------------------------------------------------------------
(* The limiter, its middleware and the invalidator on a store that fails.  *)

FaultKeys == {ListKey, CACHE_KEYS_CATEGORY(7)}

FaultNext ==
  \/ (StoreDown /\ UNCHANGED pre)
  \/ (StoreUp /\ UNCHANGED pre)
  \/ \E k \in FaultKeys : CacheView(k, Conn)
  \/ \E s \in Subjects, limit \in Limits, c \in Budgets(up) :
       CheckRateLimit(s, limit, c) /\ UNCHANGED <<admitted, seen>>
  \/ \E s \in Subjects, limit \in Limits, c \in Budgets(up) :
       GetRateLimitInfo(s, limit, c) /\ UNCHANGED seen
  \/ \E s \in Subjects, c \in Budgets(up) : ResetRateLimit(s, c)
  \/ \E s \in Subjects, limit \in Limits, c \in Budgets(up) : RateLimitMiddleware(s, limit, c)
  \/ \E c \in Budgets(up) : InvalidateUser(RouteUser, c)
  \/ \E u \in {<<>>, RouteUser}, c \in Budgets(up) : InvalidateCategory(7, u, c)
  \/ \E u \in {<<>>, RouteUser}, c \in Budgets(up) : InvalidateExpense(7, u, c)
  \/ \E c \in Budgets(up) : InvalidateUserExpenses(RouteUser, c)
  \/ \E c \in Budgets(up) : InvalidateUserCategories(RouteUser, c)

FaultSpec == InitIncr /\ [][FaultNext]_vars

LimiterOps == {"checkRateLimit", "getRateLimitInfo", "resetRateLimit", "middleware"}
InvalidateOps ==
  {"invalidateUser", "invalidateCategory", "invalidateExpense",
   "invalidateUserExpenses", "invalidateUserCategories"}

\* C17: checkRateLimit, getRateLimitInfo, resetRateLimit, the middleware and
\* every invalidate* operation return without throwing whatever the store
\* does; when a store command failed the middleware lets the request
\* continue; and the middleware denies only with the 429 of a window whose
\* hit count exceeds the limit.
C17_NoFaultSurfaced ==
  /\ last.op \in LimiterOps \cup InvalidateOps => ~last.threw
  /\ (last.op = "middleware" /\ (last.down \/ last.faulted)) => last.out.continue
  /\ (last.op = "middleware" /\ ~last.out.continue) =>
       (last.out.status = 429 /\ last.ret.totalHits > last.limit)

\* The store is unreachable, the subject is past its limit, and the request
\* continues.
C17_Witness ==
  /\ last.op = "middleware" /\ last.down /\ ~last.threw
  /\ hist[last.key].n > last.limit + 1
  /\ last.out.continue

-----------------------------------------------------------------------------
(* The limiter on a store that answers, with no reset; the calls answered *)
(* allowed and the count each caller was given are logged.                 *)

Admission(at, limit) == [at |-> at, limit |-> limit]
Seen(cacheKey, totalHits) == [op |-> "seen", cacheKey |-> cacheKey, totalHits |-> totalHits]

Admit(s, limit) ==
  LET r == checkRateLimit(store, s, limit, windowMs, now, Healthy)
  IN /\ CheckRateLimit(s, limit, Healthy)
     /\ admitted' = IF r.ret.allowed THEN Append(admitted, Admission(now, limit))
                    ELSE admitted
     /\ seen' = Seen(RateLimitKey(s, WindowStart(now, windowMs)), r.ret.totalHits)

Inspect(s, limit) ==
  LET r == getRateLimitInfo(store, s, limit, windowMs, now, Healthy)
  IN /\ GetRateLimitInfo(s, limit, Healthy)
     /\ seen' = Seen(RateLimitKey(s, WindowStart(now, windowMs)), r.ret.totalHits)

AdmitNext ==
  \/ Tick
  \/ \E s \in Subjects, limit \in Limits : Admit(s, limit)
  \/ \E s \in Subjects, limit \in Limits : Inspect(s, limit)

AdmitSpec == Init /\ [][AdmitNext]_vars

\* The calls admitted under limit L at a time in [a, b].
AdmittedIn(L, a, b) ==
  {i \in DOMAIN admitted :
     admitted[i].limit = L /\ a <= admitted[i].at /\ admitted[i].at <= b}

\* C19: on a store that answers and without reset, the calls of one subject
\* admitted under a limit number at most that limit inside any one window
\* and at most twice that limit in any interval of length windowMs (it is
\* enough to take the intervals that begin at an admission).
C19_AdmissionBound ==
  \A L \in Limits : \A i \in DOMAIN admitted :
    LET at == admitted[i].at
        windowStart == WindowStart(at, windowMs)
    IN /\ Cardinality(AdmittedIn(L, windowStart, windowStart + windowMs - 1)) <= L
       /\ Cardinality(AdmittedIn(L, at, at + windowMs)) <= 2 * L

\* 2 * limit calls admitted across one window boundary in less than
\* windowMs, and the next call of the second window denied.
C19_Witness ==
  /\ last.op = "checkRateLimit" /\ last.limit = 2 /\ ~last.ret.allowed
  /\ \E i \in DOMAIN admitted :
       /\ admitted[i].at # WindowStart(admitted[i].at, windowMs)
       /\ Cardinality(AdmittedIn(2, admitted[i].at, admitted[i].at + windowMs - 1)) = 4

\* C20: on a store that answers, across checkRateLimit and getRateLimitInfo
\* calls the totalHits given for one window key never decreases while the
\* key is alive, and a checkRateLimit call that finds no key for its window
\* (none yet, or expired) is given 1.
C20_CounterMonotone ==
  [][last'.op \in {"checkRateLimit", "getRateLimitInfo"} =>
       /\ (seen.op = "seen" /\ seen'.cacheKey = seen.cacheKey
           /\ seen.cacheKey \in DOMAIN store)
            => seen'.totalHits >= seen.totalHits
       /\ (last'.op = "checkRateLimit" /\ seen'.cacheKey \notin DOMAIN store)
            => seen'.totalHits = 1]_vars

\* A second window, begun at 1 after the first was counted, is read back at
\* 2 by getRateLimitInfo.
C20_Witness ==
  /\ last.op = "getRateLimitInfo" /\ seen.op = "seen"
  /\ seen.totalHits = 2 /\ seen.cacheKey \in DOMAIN store
  /\ admitted # <<>> /\ admitted[1].at < WindowStart(now, windowMs)

-----------------------------------------------------------------------------
(* The expiry of a window's counter.                                       *)

TtlMs(wMs) == CeilDiv(wMs, MsPerSec) * MsPerSec   \* the TTL passed to incr, in ms

\* C21: a checkRateLimit call whose commands the store answers sets the
\* expiry of its window key only when it creates the key (it is given 1),
\* to the TTL counted from that call; on a key that exists it leaves the
\* expiry as it was.
C21_ExpirySetOnce ==
  [][(last'.op \in {"checkRateLimit", "middleware"} /\ ~last'.faulted) =>
       /\ last'.cacheKey \in DOMAIN store'
       /\ last'.cacheKey \in DOMAIN store =>
            store'[last'.cacheKey].exp = store[last'.cacheKey].exp
       /\ last'.cacheKey \notin DOMAIN store =>
            /\ last'.ret.totalHits = 1
            /\ store'[last'.cacheKey].exp = now + TtlMs(windowMs)]_vars

\* A second hit, later in the window, has left the expiry where the first
\* hit put it.
C21_Witness ==
  /\ last.op = "checkRateLimit" /\ ~last.faulted /\ last.ret.totalHits = 2
  /\ last.cacheKey \in DOMAIN store
  /\ store[last.cacheKey].exp # NoExpiry
  /\ store[last.cacheKey].exp < now + TtlMs(windowMs)

\* The time of the first call admitted in the window that starts at W (the
\* first hit of a window is admitted under every limit >= 1).
HitsIn(W) == {i \in DOMAIN admitted : WindowStart(admitted[i].at, windowMs) = W}
FirstHit(W) == admitted[CHOOSE i \in HitsIn(W) : \A j \in HitsIn(W) : i <= j].at

\* C22 as stated: a window's counter key expires at windowStart + windowMs,
\* whenever in the window the first hit came.  (Refuted: the TTL runs from
\* the first hit.)
C22_ExpiresAtWindowEnd ==
  \A s \in Subjects, W \in WindowStarts :
    RateLimitKey(s, W) \in DOMAIN store =>
      store[RateLimitKey(s, W)].exp = W + windowMs

\* C22, amended: on a store that answers, a window's counter key expires
\* ceil(windowMs / 1000) seconds after the first hit of the window, which
\* is never before windowStart + windowMs and less than that TTL after it.
C22_ExpiresAfterFirstHit ==
  \A s \in Subjects, W \in WindowStarts :
    RateLimitKey(s, W) \in DOMAIN store =>
      /\ HitsIn(W) # {}
      /\ store[RateLimitKey(s, W)].exp = FirstHit(W) + TtlMs(windowMs)
      /\ store[RateLimitKey(s, W)].exp >= W + windowMs
      /\ store[RateLimitKey(s, W)].exp < W + windowMs + TtlMs(windowMs)

\* A window first hit after its start, counted twice, whose key outlives
\* the window.
C22_Witness ==
  \E s \in Subjects, W \in WindowStarts :
    /\ RateLimitKey(s, W) \in DOMAIN store
    /\ FirstHit(W) > W
    /\ store[RateLimitKey(s, W)].val = "2"
    /\ store[RateLimitKey(s, W)].exp > W + windowMs

\* Window sizes in ms: sub-second, whole and fractional seconds, and the
\* windows of RATE_LIMITS (60 s, 15 min, 1 h).
WindowSizes == {1, 500, 999, 1000, 1001, 1500, 60000, 900000, 3600000}

\* C25: on a store that answers, the counter of the window the clock is in
\* is present from its first hit on and holds the number of hits made in the
\* window, so no hit in a window is counted from 1 again; for every window
\* size the TTL given at the first hit reaches the end of the window.
C25_NoEarlyEviction ==
  /\ \A s \in Subjects :
       (hist[s].ws = WindowStart(now, windowMs) /\ hist[s].n > 0) =>
         /\ RateLimitKey(s, hist[s].ws) \in DOMAIN store
         /\ store[RateLimitKey(s, hist[s].ws)].val = ToString(hist[s].n)
         /\ store[RateLimitKey(s, hist[s].ws)].exp >= hist[s].ws + windowMs
  /\ last.op = "checkRateLimit" => last.ret.totalHits = hist[last.key].n
  /\ \A wMs \in WindowSizes : TtlMs(wMs) >= wMs

\* A hit at the last clock value of a window first hit earlier finds the
\* counter and is counted after the earlier ones.
C25_Witness ==
  /\ last.op = "checkRateLimit" /\ last.ret.totalHits >= 2
  /\ FirstHit(WindowStart(now, windowMs)) < now
  /\ now + TickMs >= WindowStart(now, windowMs) + windowMs

-----------------------------------------------------------------------------
(* The limiter in front of the cached read path.                           *)

\* C23 as stated: a GET /expenses request consults the cache (and then the
\* data layer) only after a checkRateLimit decision has been taken.
\* (Refuted: the routes only `.use(rateLimitPlugin)`, which decorates the
\* context; no handler or hook calls checkRateLimit or the middleware, so
\* hist, the calls of checkRateLimit made, stays empty.)
C23_LimiterGatesLookup ==
  /\ \A p \in Requests :
       pc[p].at \in {"read", "store"} => \E s \in Subjects : hist[s].n > 0
  /\ last.op = "GET /expenses" => \E s \in Subjects : hist[s].n > 0

-----------------------------------------------------------------------------
(* The Cacheable wrapper, checked under CacheSpec.                         *)

\* The value cache.get reads for key k in store st (null when there is
\* none: no key, an empty payload, a payload that is not JSON).
Cached(st, k) ==
  IF k \in DOMAIN st /\ st[k].val # "" /\ ~JSONparse(st[k].val).err
  THEN JSONparse(st[k].val).val ELSE JsNull

\* C24: a call of a wrapped method, on a store that answers: when the cache
\* holds a non-null value under the generated key the method is not invoked,
\* that value is returned and the store is left alone; otherwise the method
\* is invoked (once), its result is returned, and it is written under the
\* key with the configured TTL exactly when it is neither null nor
\* undefined.
C24_Cacheable ==
  [][(last'.op = "Cacheable" /\ ~last'.faulted) =>
       IF Cached(store, last'.key) # JsNull
       THEN /\ ~last'.invoked
            /\ last'.ret = Cached(store, last'.key)
            /\ store' = store
       ELSE /\ last'.invoked
            /\ last'.ret = last'.result
            /\ IF last'.result \notin {JsNull, JsUndefined}
               THEN store' = Put(store, last'.key,
                                 [val |-> JSONstringify(last'.result),
                                  exp |-> now + last'.seconds * MsPerSec])
               ELSE store' = store]_vars

\* A hit on a cached 0: the falsy value is returned and the method, whose
\* result would have been another value, is not called.
C24_Witness ==
  /\ last.op = "Cacheable" /\ ~last.faulted
  /\ ~last.invoked
  /\ last.ret = JsNum(0) /\ last.result = JsObj(1)

-----------------------------------------------------------------------------
(* Tenant isolation of the invalidations, checked under InvalSpec.         *)

\* Key k is a key of user b: user:{b} or user:{b}:...; of category or
\* expense b: category:{b}, category:{b}:..., expense:{b}, expense:{b}:...
OwnedBy(k, b) ==
  k = S_user \o b \/ IsPrefix(S_user \o b \o S_colon, k)
EntityKey(k, prefix, b) ==
  k = prefix \o NumToStr(b) \/ IsPrefix(prefix \o NumToStr(b) \o S_colon, k)

\* C26 as stated: an invalidation for user a deletes no key of another user
\* b, and invalidateCategory(a) / invalidateExpense(a) delete no key of
\* another category / expense b, also when a is a prefix of b.  (Refuted:
\* `user:4*` matches the keys of user 42.)
C26_TenantIsolation ==
  \A k \in DOMAIN pre \ DOMAIN store :
    /\ last.op \in {"invalidateUser", "invalidateUserExpenses",
                    "invalidateUserCategories"} =>
         \A b \in Users \ {last.userId} : ~OwnedBy(k, b)
    /\ last.op = "invalidateCategory" =>
         \A b \in Ids \ {last.id} : ~EntityKey(k, S_category, b)
    /\ last.op = "invalidateExpense" =>
         \A b \in Ids \ {last.id} : ~EntityKey(k, S_expense, b)

-----------------------------------------------------------------------------
(* Two subjects of the limiter, the second being the first followed by     *)
(* `:x` (the default middleware key is `${userId}:${ip}`).                 *)

PairedSubjects == Subjects \cup {s \o S_x : s \in Subjects}

InitPaired ==
  /\ store = EmptyStore
  /\ now = 0
  /\ up = TRUE
  /\ windowMs = 1000
  /\ last = NoOp
  /\ prev = NoOp
  /\ pre = EmptyStore
  /\ hist = [s \in PairedSubjects |-> [ws |-> -1, n |-> 0, clean |-> TRUE]]
  /\ pc = [p \in Procs |-> Pc("idle", 0)]
  /\ got = [p \in Procs |-> 0]
  /\ db = 0
  /\ acked = 0
  /\ admitted = <<>>
  /\ seen = NoOp

PairedNext ==
  \/ Tick
  \/ \E s \in PairedSubjects, limit \in Limits :
       CheckRateLimit(s, limit, Healthy) /\ UNCHANGED <<admitted, seen>>
  \/ \E s \in PairedSubjects : ResetRateLimit(s, Healthy)

PairedSpec == InitPaired /\ [][PairedNext]_vars

\* The window counters of subject s that store st holds.
WindowKeys(st, s) == {RateLimitKey(s, W) : W \in WindowStarts} \cap DOMAIN st

\* C27 as stated: checkRateLimit(s, ...) and resetRateLimit(s) leave every
\* counter of every other subject as it was, also of a subject s:suffix.
\* (Refuted: `rate_limit:${s}:*` matches the keys of s:suffix.)
C27_SubjectIsolation ==
  [][last'.op \in {"checkRateLimit", "resetRateLimit"} =>
       \A other \in PairedSubjects \ {last'.key} :
         \A k \in WindowKeys(store, other) :
           k \in DOMAIN store' /\ store'[k] = store[k]]_vars

-----------------------------------------------------------------------------
(* Hits reported and hits recorded, checked under Spec.                    *)

\* C28 as stated: a checkRateLimit call that returns totalHits = 0 has not
\* incremented the stored counter of its window, and a call that brings the
\* counter to n returns totalHits = n.  (Refuted: when EXPIRE fails after
\* INCR has made the counter 1, incr returns 0.)
C28_ReportedMatchesRecorded ==
  [][last'.op = "checkRateLimit" =>
       /\ last'.ret.totalHits = 0 =>
            StoredCount(store', last'.cacheKey) = StoredCount(store, last'.cacheKey)
       /\ StoredCount(store', last'.cacheKey) # StoredCount(store, last'.cacheKey) =>
            last'.ret.totalHits = StoredCount(store', last'.cacheKey)]_vars

-----------------------------------------------------------------------------
(* The middleware when the store takes time to answer: the clock advances *)
(* between the Date.now() of checkRateLimit and the Date.now() of the 429  *)
(* body.  The window is limitConfig.window seconds.  Checked under         *)
(* DelaySpec.                                                              *)

WindowSeconds == {1, 2}
Delays == {0, 1, TickMs, 2 * TickMs}   \* how long the store takes to answer

InitDelay == InitCommon /\ windowMs \in {w * MsPerSec : w \in WindowSeconds}

DelayedRequest(s, limit, d) ==
  LET m == createRateLimitMiddleware(store, s, limit, windowMs, now, now + d, Healthy)
      ws == WindowStart(now, windowMs)
  IN /\ now + d <= MaxTicks * TickMs
     /\ hist[s].ws = ws => hist[s].n < MaxHits
     /\ now' = now + d
     /\ store' = Evict(m.st, now + d)
     /\ last' = [op |-> "middleware", key |-> s, limit |-> limit,
                 cacheKey |-> RateLimitKey(s, ws), at |-> now, delay |-> d,
                 ret |-> m.result, out |-> m.ret, threw |-> m.threw,
                 faulted |-> FALSE, down |-> FALSE]
     /\ hist' = Counted(hist, s, ws, TRUE)
     /\ UNCHANGED <<admitted, seen, db, acked, up, windowMs, prev, pre, pc, got>>

DelayNext ==
  \/ Tick
  \/ \E s \in Subjects, limit \in Limits, d \in Delays : DelayedRequest(s, limit, d)

DelaySpec == InitDelay /\ [][DelayNext]_vars

\* C29 as stated: on every denied request retryAfter is a whole number of
\* seconds with 1 <= retryAfter <= window, the configured window in seconds,
\* however long the store took to answer.  (Refuted: a request counted just
\* before its window ends and answered at or after the end gets retryAfter 0
\* or less.)
C29_RetryAfterRange ==
  (last.op = "middleware" /\ ~last.out.continue) =>
    /\ last.out.retryAfter \in Int
    /\ 1 <= last.out.retryAfter
    /\ last.out.retryAfter <= windowMs \div MsPerSec

-----------------------------------------------------------------------------
(* The legacy limiter rateLimit(ip, limit, window): one counter rate:{ip},  *)
(* no window in the key.  Checked under LegacySpec, on a store that        *)
(* answers.                                                                *)

S_rate == <<"r", "a", "t", "e", ":">>

\* What a call of rateLimit leaves: count is what INCR replied, msg the
\* message of the Error thrown ("" when none or when the store's error
\* surfaced).
Limited(count, threw, msg, st, c) ==
  [count |-> count, threw |-> threw, msg |-> msg, st |-> st, c |-> c]

\* Mutant: EXPIRE after every INCR.
rateLimit_refreshing(st, ip, limit, window, t, c) ==
  IF RedisIncr(st, S_rate \o ip, c).err
  THEN Limited(0, TRUE, "", RedisIncr(st, S_rate \o ip, c).st, RedisIncr(st, S_rate \o ip, c).c)
  ELSE LET r == RedisIncr(st, S_rate \o ip, c)
           e == RedisExpire(r.st, S_rate \o ip, window, t, r.c)
       IN IF e.err THEN Limited(r.n, TRUE, "", e.st, e.c)
          ELSE Limited(r.n, r.n > limit,
                       IF r.n > limit THEN "Rate limit exceeded" ELSE "", e.st, e.c)

rateLimit(st, ip, limit, window, t, c) ==
  IF RedisIncr(st, S_rate \o ip, c).err
  THEN Limited(0, TRUE, "", RedisIncr(st, S_rate \o ip, c).st, RedisIncr(st, S_rate \o ip, c).c)
  ELSE LET r == RedisIncr(st, S_rate \o ip, c)
           e == IF r.n = 1 THEN RedisExpire(r.st, S_rate \o ip, window, t, r.c) ELSE r
       IN IF e.err THEN Limited(r.n, TRUE, "", e.st, e.c)
          ELSE Limited(r.n, r.n > limit,
                       IF r.n > limit THEN "Rate limit exceeded" ELSE "", e.st, e.c)

Ips == {<<"i", "p", "1">>, <<"i", "p", "2">>}
LegacyWindows == {1, 2}        \* seconds

\* hist[ip] is the period of ip as the calls define it: at is the time of the
\* call that opened it, window that call's window, n the calls made in it.  A
\* call later than window seconds after `at` opens the next period.
NoPeriod == [at |-> 0, window |-> 0, n |-> 0]
InPeriod(h, t) == h.n > 0 /\ t <= h.at + h.window * MsPerSec
Called(h, t, window) ==
  IF InPeriod(h, t) THEN [h EXCEPT !.n = h.n + 1]
  ELSE [at |-> t, window |-> window, n |-> 1]

InitLegacy ==
  /\ store = EmptyStore
  /\ now = 0
  /\ up = TRUE
  /\ windowMs = 1000
  /\ last = NoOp
  /\ prev = NoOp
  /\ pre = EmptyStore
  /\ hist = [ip \in Ips |-> NoPeriod]
  /\ pc = [p \in Procs |-> Pc("idle", 0)]
  /\ got = [p \in Procs |-> 0]
  /\ db = 0
  /\ acked = 0
  /\ admitted = <<>>
  /\ seen = NoOp

RateLimit(ip, limit, window) ==
  LET r == rateLimit(store, ip, limit, window, now, Healthy)
  IN /\ InPeriod(hist[ip], now) => hist[ip].n < MaxHits
     /\ store' = r.st
     /\ last' = [op |-> "rateLimit", ip |-> ip, limit |-> limit, window |-> window,
                 key |-> S_rate \o ip, count |-> r.count,
                 threw |-> r.threw, msg |-> r.msg]
     /\ prev' = last
     /\ pre' = store
     /\ hist' = [hist EXCEPT ![ip] = Called(hist[ip], now, window)]
     /\ UNCHANGED <<admitted, seen, db, acked, now, up, windowMs, pc, got>>

LegacyNext ==
  \/ Tick
  \/ \E ip \in Ips, limit \in Limits, window \in LegacyWindows : RateLimit(ip, limit, window)

LegacySpec == InitLegacy /\ [][LegacyNext]_vars

\* C30: on a store that answers, the n-th call for an ip within `window`
\* seconds of the call that opened the period is given count n, so it returns
\* normally when n <= limit and throws "Rate limit exceeded" when n > limit;
\* the counter outlives every call of the period with the expiry the opening
\* call set, `window` seconds after that call, which no later call moves.
C30_LegacyLimiter ==
  last.op = "rateLimit" =>
    /\ last.count = hist[last.ip].n
    /\ last.threw <=> hist[last.ip].n > last.limit
    /\ last.threw => last.msg = "Rate limit exceeded"
    /\ last.key \in DOMAIN store
    /\ store[last.key].exp = hist[last.ip].at + hist[last.ip].window * MsPerSec
    /\ \A k \in DOMAIN pre \ {last.key} : k \in DOMAIN store /\ store[k] = pre[k]

\* The third call of a period under limit 2, later than the opening call and
\* with another window argument, is refused; the expiry is the opening call's.
C30_Witness ==
  /\ last.op = "rateLimit" /\ last.limit = 2 /\ last.count = 3 /\ last.threw
  /\ hist[last.ip].at < now
  /\ hist[last.ip].window # last.window
  /\ prev.op = "rateLimit" /\ ~prev.threw

====
